---- MODULE Spec2Model ----
(***************************************************************************)
(* Model of the simulated Tecan Fluent backend                             *)
(* (worklist_tests/tecan_simulator_backend.py): SimulatedRuntime,          *)
(* SimulatedFluentControl and TecanFluentSimulatorBackend, and of the      *)
(* worklist simulator (worklist_tests/tecan_simulator.py): TecanSimulator. *)
(*                                                                         *)
(* Every coroutine of the backend runs without suspension from its entry   *)
(* (or from the end of an asyncio.sleep) to its next asyncio.sleep, its    *)
(* return or its raise: execute_command and the simulated start/stop/      *)
(* initialize contain no suspension point.  One action of the model is     *)
(* one such uninterrupted run.                                             *)
(***************************************************************************)
EXTENDS Integers, Sequences, FiniteSets, TLC

VARIABLES
  setup_finished,        \* TecanFluentSimulatorBackend.setup_finished
  started,               \* SimulatedFluentControl.started
  initialized,           \* SimulatedRuntime.initialized
  runtime_state,         \* SimulatedRuntime.state
  commands,              \* SimulatedRuntime.commands (the list of (command, params))
  tip_states,            \* _tip_states: dict channel -> bool
  liquid_states,         \* _liquid_states: dict well_key -> volume
  picked_up_resource,    \* _picked_up_resource: None or a resource
  task,                  \* the calling coroutine(s): position, arguments, outcome
  connected,             \* TecanSimulator.connected
  load,                  \* the last load_worklist call: its file and its outcome
  run,                   \* the execute_commands coroutine: position, arguments
  executed,              \* the commands execute_commands has simulated (its log)
  simulator_tip_states,  \* TecanSimulator.tip_states
  simulator_liquid_states, \* TecanSimulator.liquid_states
  status,                \* the dict the caller got from backend.get_status()
  sila_config,           \* TecanSiLABackend: host, port, insecure, username, ...
  fluent,                \* TecanSiLABackend.fluent: None or the connector
  connector_calls,       \* what the last call did on Fluent and on the connector
  sila_call,             \* the last TecanSiLABackend call and its outcome
  serialized,            \* what the last TecanSiLABackend.serialize() returned
  client,                \* TecanFluentConnection.client, UnitelabsSilasBackend.client
  connection_call,       \* the last call on each of the two and its outcome
  silas_config,          \* tecan_silas_backend.TecanSiLABackend: method_name
  silas_client,          \* tecan_silas_backend.TecanSiLABackend.client
  fluent_service,        \* its fluent_service attribute (None before setup)
  current_method_id,     \* its _current_method_id
  silas_call,            \* its running or last call: position, service calls
  tecan_fluent,          \* fluent.Fluent.fluent: None or the connector
  fluent_mode,           \* fluent.Fluent: constructed, simulation_mode
  fluent_call            \* the last fluent.Fluent call and its connector calls

backend == <<tip_states, liquid_states, picked_up_resource>>
session == <<setup_finished, started, initialized, runtime_state>>
simulator_state == <<simulator_tip_states, simulator_liquid_states>>
simulator == <<connected, load, run, executed, simulator_state>>
sila_backend == <<sila_config, fluent, connector_calls, sila_call>>
wrappers == <<client, connection_call>>
method_backend ==
  <<silas_config, silas_client, fluent_service, current_method_id, silas_call>>
fluent_backend == <<tecan_fluent, fluent_mode, fluent_call>>
other_objects == <<serialized, wrappers, method_backend, fluent_backend>>
vars == <<setup_finished, started, initialized, runtime_state, commands,
          tip_states, liquid_states, picked_up_resource, task,
          connected, load, run, executed,
          simulator_tip_states, simulator_liquid_states, status,
          sila_config, fluent, connector_calls, sila_call, serialized,
          client, connection_call,
          silas_config, silas_client, fluent_service, current_method_id,
          silas_call,
          tecan_fluent, fluent_mode, fluent_call>>

(***************************************************************************)
(* Bounds and input sets.                                                  *)
(***************************************************************************)
\* Calls are issued while the runtime's command list is shorter than this.
MaxCommands == 3
\* Longest ops / use_channels list of one call.
MaxBatch == 2

Channels == {0, 1}
Wells == {"w1", "w2"}
TipSpots == {"tip"}
Plates == {"p1", "p2"}
\* Requested volumes; the backend accepts any number, a negative one included.
Volumes == {-1, 2}
\* Volume the harness writes into a source well before the transfer.
SeedVolumes == {3}
LiquidClasses == {"water"}
\* The coroutines that may call the backend, and the one that calls it when
\* every operation is awaited before the next is issued.
Tasks == {"main", "other"}
Callers == {"main"}

None == "None"

(***************************************************************************)
(* Python dict helpers: a dict is a function whose DOMAIN is its key set.  *)
(***************************************************************************)
EmptyDict == <<>>

DictSet(d, k, v) == [j \in (DOMAIN d) \cup {k} |-> IF j = k THEN v ELSE d[j]]

DictGet(d, k, default) == IF k \in DOMAIN d THEN d[k] ELSE default

Min(a, b) == IF a <= b THEN a ELSE b

\* zip(ops, use_channels) stops at the shorter list.
ZipLen(c) == Min(Len(c.ops), Len(c.use_channels))

(***************************************************************************)
(* Pieces of the backend's code.                                           *)
(***************************************************************************)
\* op.resource.get_name(): the resource's own name.
GetName(r) == r

\* well_key = f"{op.resource.name}_{op.resource.get_name()}", kept as the pair
\* of its two parts.
WellKey(r) == <<r, GetName(r)>>

\* op.resource.get_absolute_location(): an opaque position per resource.
Position(r) == <<"pos", r>>

TipGetDefaultTrue(ts, ch) == DictGet(ts, ch, TRUE)

\* self._tip_states.get(channel, False)
TipGet(ts, ch) == DictGet(ts, ch, FALSE)

\* self._liquid_states.get(well_key, 0)
LiquidGet(ls, key) == DictGet(ls, key, 0)

NotEnoughLiquidFlipped(current_volume, volume) == current_volume > volume

\* if current_volume < op.volume: raise
NotEnoughLiquid(current_volume, volume) == current_volume < volume

(***************************************************************************)
(* Volumes are Python floats.  A float here has MantissaBits significant   *)
(* bits (53 in the binary64 of Python) and is counted in units of the      *)
(* smallest step in play, so that it is an integer: every integer below    *)
(* 2^MantissaBits is a float, above it only every second one, then every   *)
(* fourth, and so on.  A sum or a difference is the exact result rounded   *)
(* to the nearest float, a tie going to the float with the even mantissa.  *)
(***************************************************************************)
MantissaBits == 5

RECURSIVE Pow2(_)
Pow2(n) == IF n = 0 THEN 1 ELSE 2 * Pow2(n - 1)

\* The distance between neighbouring floats at magnitude m.
RECURSIVE Spacing(_)
Spacing(m) == IF m < Pow2(MantissaBits) THEN 1 ELSE 2 * Spacing(m \div 2)

RoundToFloat(x) ==
  LET m == IF x < 0 THEN 0 - x ELSE x
      u == Spacing(m)
      q == m \div u
      r == m % u
      rounded == IF 2 * r > u \/ (2 * r = u /\ q % 2 = 1) THEN (q + 1) * u ELSE q * u
  IN IF x < 0 THEN 0 - rounded ELSE rounded

AfterAspirateSwapped(current_volume, volume) == volume - current_volume

\* current_volume - op.volume
AfterAspirate(current_volume, volume) == RoundToFloat(current_volume - volume)

AfterDispenseOverwrite(current_volume, volume) == volume

\* current_volume + op.volume
AfterDispense(current_volume, volume) == RoundToFloat(current_volume + volume)

Snapshot == [tip_states |-> tip_states, liquid_states |-> liquid_states,
             picked_up_resource |-> picked_up_resource, commands |-> commands]

EmptySnapshot == [tip_states |-> EmptyDict, liquid_states |-> EmptyDict,
                  picked_up_resource |-> None, commands |-> <<>>]

\* elapsed: the simulated time, in tenths of a second, the call has slept;
\* before: the state at the entry of the call; at_element: the state when the
\* element last processed (element i) was started.
IdleTask == [pc |-> "idle", kind |-> "none", ops |-> <<>>, use_channels |-> <<>>,
             i |-> 0, error |-> "none", before |-> EmptySnapshot,
             at_element |-> EmptySnapshot, elapsed |-> 0]

(***************************************************************************)
(* The arguments a caller may pass.                                        *)
(***************************************************************************)
TipOps == [resource : TipSpots]
LiquidOps == [resource : Wells, volume : Volumes, liquid_class : LiquidClasses]
TipKinds == {"pick_up_tips", "drop_tips"}
LiquidKinds == {"aspirate", "dispense"}
ResourceKinds == {"pick_up_resource", "move_picked_up_resource", "drop_resource"}
HeadKinds == {"pick_up_tips96", "drop_tips96", "aspirate96", "dispense96"}

\* ops and use_channels are parallel lists of one length; a call is issued
\* while the runtime's command list has room for all its commands.
Batches(Ops) ==
  UNION {[1..m -> Ops] \X [1..m -> Channels] :
           m \in 1..Min(MaxBatch, MaxCommands - Len(commands))}

(***************************************************************************)
(* How a coroutine leaves an uninterrupted run.                            *)
(***************************************************************************)
\* An exception that is noted and does not end the loop.
RaiseAndGoOn(t, c, i, e) ==
  task' = [task EXCEPT ![t] = [c EXCEPT !.pc = "sleeping", !.i = i, !.error = e,
                                        !.at_element = Snapshot]]

Raise(t, c, i, e) ==
  task' = [task EXCEPT ![t] = [c EXCEPT !.pc = "raised", !.i = i, !.error = e,
                                        !.at_element = Snapshot]]

\* await asyncio.sleep(...): the coroutine is suspended after element i.
Sleep(t, c, i) ==
  task' = [task EXCEPT ![t] = [c EXCEPT !.pc = "sleeping", !.i = i,
                                        !.at_element = Snapshot]]

Return(t, c) ==
  task' = [task EXCEPT ![t] = [c EXCEPT !.pc = "returned"]]

\* SimulatedRuntime.execute_command: the list after self.commands.append(...)
Executed(command, params) ==
  Append(commands, [command |-> command, params |-> params])

(***************************************************************************)
(* One iteration of each operation's loop: element i of call c.            *)
(***************************************************************************)
PickUpTipsElement(t, c, i) ==
  LET op == c.ops[i]
      channel == c.use_channels[i]
  IN IF ~initialized
     THEN Raise(t, c, i, "Runtime not initialized") /\ UNCHANGED <<commands, backend>>
     ELSE /\ commands' = Executed("PickUpTip",
                 [channel |-> channel, position |-> Position(op.resource)])
          /\ tip_states' = DictSet(tip_states, channel, TRUE)
          /\ UNCHANGED <<liquid_states, picked_up_resource>>
          /\ Sleep(t, c, i)

DropTipsElement(t, c, i) ==
  LET op == c.ops[i]
      channel == c.use_channels[i]
  IN IF ~initialized
     THEN Raise(t, c, i, "Runtime not initialized") /\ UNCHANGED <<commands, backend>>
     ELSE /\ commands' = Executed("DropTip",
                 [channel |-> channel, position |-> Position(op.resource)])
          /\ tip_states' = DictSet(tip_states, channel, FALSE)
          /\ UNCHANGED <<liquid_states, picked_up_resource>>
          /\ Sleep(t, c, i)

AspirateElement(t, c, i) ==
  LET op == c.ops[i]
      channel == c.use_channels[i]
      well_key == WellKey(op.resource)
      current_volume == LiquidGet(liquid_states, well_key)
  IN IF ~TipGet(tip_states, channel)
     THEN Raise(t, c, i, "No tip on channel") /\ UNCHANGED <<commands, backend>>
     ELSE IF ~initialized
     THEN Raise(t, c, i, "Runtime not initialized") /\ UNCHANGED <<commands, backend>>
     ELSE /\ commands' = Executed("Aspirate",
                 [channel |-> channel, volume |-> op.volume,
                  position |-> Position(op.resource),
                  liquid_class |-> op.liquid_class])
          /\ IF NotEnoughLiquid(current_volume, op.volume)
             THEN Raise(t, c, i, "Not enough liquid") /\ UNCHANGED backend
             ELSE /\ liquid_states' = DictSet(liquid_states, well_key,
                                              AfterAspirate(current_volume, op.volume))
                  /\ UNCHANGED <<tip_states, picked_up_resource>>
                  /\ Sleep(t, c, i)

DispenseElement(t, c, i) ==
  LET op == c.ops[i]
      channel == c.use_channels[i]
      well_key == WellKey(op.resource)
      current_volume == LiquidGet(liquid_states, well_key)
  IN IF ~TipGet(tip_states, channel)
     THEN Raise(t, c, i, "No tip on channel") /\ UNCHANGED <<commands, backend>>
     ELSE IF ~initialized
     THEN Raise(t, c, i, "Runtime not initialized") /\ UNCHANGED <<commands, backend>>
     ELSE /\ commands' = Executed("Dispense",
                 [channel |-> channel, volume |-> op.volume,
                  position |-> Position(op.resource),
                  liquid_class |-> op.liquid_class])
          /\ liquid_states' = DictSet(liquid_states, well_key,
                                      AfterDispense(current_volume, op.volume))
          /\ UNCHANGED <<tip_states, picked_up_resource>>
          /\ Sleep(t, c, i)

\* The for loop over zip(ops, use_channels), entered at element i.
Loop(t, c, i) ==
  IF i > ZipLen(c)
  THEN Return(t, c) /\ UNCHANGED <<commands, backend>>
  ELSE CASE c.kind = "pick_up_tips" -> PickUpTipsElement(t, c, i)
         [] c.kind = "drop_tips" -> DropTipsElement(t, c, i)
         [] c.kind = "aspirate" -> AspirateElement(t, c, i)
         [] c.kind = "dispense" -> DispenseElement(t, c, i)

AlreadyHoldingThis(held, resource) == held = resource

\* if self._picked_up_resource is not None: raise (whatever resource is asked for)
AlreadyHolding(held, resource) == held # None

\* The body of a resource operation after its setup guard.
ResourceBody(t, c) ==
  LET resource == c.ops[1].resource
  IN CASE c.kind = "pick_up_resource" ->
            IF AlreadyHolding(picked_up_resource, resource)
            THEN Raise(t, c, 1, "Already holding a resource")
                 /\ UNCHANGED <<commands, backend>>
            ELSE IF ~initialized
            THEN Raise(t, c, 1, "Runtime not initialized")
                 /\ UNCHANGED <<commands, backend>>
            ELSE /\ commands' = Executed("PickUpResource", [resource |-> resource])
                 /\ picked_up_resource' = resource
                 /\ UNCHANGED <<tip_states, liquid_states>>
                 /\ Sleep(t, c, 1)
       [] c.kind = "move_picked_up_resource" ->
            IF picked_up_resource = None
            THEN Raise(t, c, 1, "No resource picked up")
                 /\ UNCHANGED <<commands, backend>>
            ELSE IF ~initialized
            THEN Raise(t, c, 1, "Runtime not initialized")
                 /\ UNCHANGED <<commands, backend>>
            ELSE /\ commands' = Executed("MoveResource",
                        [resource |-> resource, target |-> c.ops[1].target])
                 /\ UNCHANGED backend
                 /\ Sleep(t, c, 1)
       [] c.kind = "drop_resource" ->
            IF picked_up_resource = None
            THEN Raise(t, c, 1, "No resource picked up")
                 /\ UNCHANGED <<commands, backend>>
            ELSE IF ~initialized
            THEN Raise(t, c, 1, "Runtime not initialized")
                 /\ UNCHANGED <<commands, backend>>
            ELSE /\ commands' = Executed("DropResource", [resource |-> resource])
                 /\ picked_up_resource' = None
                 /\ UNCHANGED <<tip_states, liquid_states>>
                 /\ Sleep(t, c, 1)

\* The command a 96-head operation hands to the runtime.
HeadCommand(kind) ==
  CASE kind = "pick_up_tips96" -> "PickUpTips96"
    [] kind = "drop_tips96" -> "DropTips96"
    [] kind = "aspirate96" -> "Aspirate96"
    [] kind = "dispense96" -> "Dispense96"

\* The body of a 96-head operation after its setup guard: execute_command,
\* then asyncio.sleep(1.0).  Tip flags and well volumes are not touched.
HeadBody(t, c) ==
  IF ~initialized
  THEN Raise(t, c, 1, "Runtime not initialized") /\ UNCHANGED <<commands, backend>>
  ELSE /\ commands' = Executed(HeadCommand(c.kind), c.ops[1])
       /\ UNCHANGED backend
       /\ Sleep(t, c, 1)

SessionClosedNever == FALSE

\* The guard at the entry of every operation: if not self.setup_finished
SessionClosed == ~setup_finished

(***************************************************************************)
(* Entry of an operation: the setup guard, then the run up to the first    *)
(* suspension.                                                             *)
(***************************************************************************)
Enter(t, kind, ops, use_channels) ==
  /\ task[t].pc = "idle"
  /\ Len(commands) < MaxCommands
  /\ LET c == [IdleTask EXCEPT !.kind = kind, !.ops = ops,
                               !.use_channels = use_channels, !.before = Snapshot]
     IN IF SessionClosed
        THEN Raise(t, c, 0, "Simulator not set up") /\ UNCHANGED <<commands, backend>>
        ELSE IF kind \in ResourceKinds THEN ResourceBody(t, c)
        ELSE IF kind \in HeadKinds THEN HeadBody(t, c)
        ELSE Loop(t, c, 1)
  /\ UNCHANGED <<session, simulator, status, sila_backend, other_objects>>

pick_up_tips(t) == \E b \in Batches(TipOps) : Enter(t, "pick_up_tips", b[1], b[2])

drop_tips(t) == \E b \in Batches(TipOps) : Enter(t, "drop_tips", b[1], b[2])

aspirate(t) == \E b \in Batches(LiquidOps) : Enter(t, "aspirate", b[1], b[2])

dispense(t) == \E b \in Batches(LiquidOps) : Enter(t, "dispense", b[1], b[2])

pick_up_resource(t) ==
  \E r \in Plates : Enter(t, "pick_up_resource", <<[resource |-> r]>>, <<>>)

move_picked_up_resource(t) ==
  \E r \in Plates :
    Enter(t, "move_picked_up_resource",
          <<[resource |-> r, target |-> Position("target")]>>, <<>>)

drop_resource(t) ==
  \E r \in Plates : Enter(t, "drop_resource", <<[resource |-> r]>>, <<>>)

TipRacks == {"tip_rack"}

HeadVolumes == {2}

pick_up_tips96(t) ==
  \E r \in TipRacks : Enter(t, "pick_up_tips96", <<[resource |-> r]>>, <<>>)

drop_tips96(t) ==
  \E r \in TipRacks : Enter(t, "drop_tips96", <<[resource |-> r]>>, <<>>)

aspirate96(t) ==
  \E r \in Plates, v \in HeadVolumes :
    Enter(t, "aspirate96", <<[resource |-> r, volume |-> v]>>, <<>>)

dispense96(t) ==
  \E r \in Plates, v \in HeadVolumes :
    Enter(t, "dispense96", <<[resource |-> r, volume |-> v]>>, <<>>)

\* The argument of the asyncio.sleep of an operation, in tenths of a second:
\* 0.5 after a tip or liquid element, 1.0 after a resource or 96-head
\* operation.
SleepTime(kind) == IF kind \in ResourceKinds \cup HeadKinds THEN 10 ELSE 5

\* asyncio.sleep is over: the loop goes on with the next element, or the
\* coroutine returns.
Wake(t) ==
  /\ task[t].pc = "sleeping"
  /\ LET c == [task[t] EXCEPT !.elapsed = @ + SleepTime(task[t].kind)]
     IN IF c.kind \in ResourceKinds \cup HeadKinds
        THEN Return(t, c) /\ UNCHANGED <<commands, backend>>
        ELSE Loop(t, c, c.i + 1)
  /\ UNCHANGED <<session, simulator, status, sila_backend, other_objects>>

\* The caller cancels the operation: asyncio raises CancelledError in the
\* coroutine at the await it is suspended in, the asyncio.sleep that follows
\* the dispatch and the state update of element i.
Cancel(t) ==
  /\ task[t].pc = "sleeping"
  /\ task' = [task EXCEPT ![t] = [task[t] EXCEPT !.pc = "cancelled",
                                                  !.error = "CancelledError"]]
  /\ UNCHANGED <<session, commands, backend, simulator, status, sila_backend, other_objects>>

\* The caller has seen the result (or the exception) of its call.
CallerContinues(t) ==
  /\ task[t].pc \in {"returned", "raised", "cancelled"}
  /\ task' = [task EXCEPT ![t] = IdleTask]
  /\ UNCHANGED <<session, commands, backend, simulator, status, sila_backend, other_objects>>

\* TecanFluentSimulatorBackend.setup with SimulatedFluentControl.start and
\* SimulatedRuntime.initialize
SetupWithoutInitialize ==
  /\ started' = TRUE
  /\ setup_finished' = TRUE
  /\ UNCHANGED <<initialized, runtime_state>>
  /\ UNCHANGED <<commands, backend, task, simulator, status, sila_backend, other_objects>>

\* The body of setup: start(), initialize() and the flag, in one run (none
\* of the awaited coroutines suspends).
SetupBody ==
  /\ started' = TRUE
  /\ initialized' = TRUE
  /\ runtime_state' = "ready"
  /\ setup_finished' = TRUE
  /\ UNCHANGED <<commands, backend, task, simulator, status, sila_backend, other_objects>>

setup ==
  /\ \A t \in Tasks : task[t].pc = "idle"
  /\ SetupBody

\* TecanFluentSimulatorBackend.stop with SimulatedFluentControl.stop
StopAndReset ==
  /\ started' = FALSE
  /\ setup_finished' = FALSE
  /\ tip_states' = EmptyDict
  /\ liquid_states' = EmptyDict
  /\ picked_up_resource' = None
  /\ commands' = <<>>
  /\ UNCHANGED <<initialized, runtime_state, task,
                 simulator, status, sila_backend, other_objects>>

\* The body of stop: SimulatedFluentControl.stop() and the flag; the runtime
\* stays initialized and no ledger is touched.
StopBody ==
  /\ started' = FALSE
  /\ setup_finished' = FALSE
  /\ UNCHANGED <<initialized, runtime_state, commands, backend, task,
                 simulator, status, sila_backend, other_objects>>

stop ==
  /\ \A t \in Tasks : task[t].pc = "idle"
  /\ StopBody

\* The harness writes the starting volume of a source well into the ledger
\* before the first operation.
Preseed ==
  /\ \A t \in Tasks : task[t].pc = "idle"
  /\ setup_finished
  /\ commands = <<>>
  /\ \E w \in Wells, v \in SeedVolumes :
       /\ WellKey(w) \notin DOMAIN liquid_states
       /\ liquid_states' = DictSet(liquid_states, WellKey(w), v)
  /\ UNCHANGED <<session, commands, tip_states, picked_up_resource, task,
                 simulator, status, sila_backend, other_objects>>

(***************************************************************************)
(* The worklist simulator (worklist_tests/tecan_simulator.py).             *)
(*                                                                         *)
(* A str is the sequence of its characters.  The characters of the model   *)
(* are the record codes, ";", the newline, the blank, the minus sign, a    *)
(* few digits and a few letters for names.                                 *)
(***************************************************************************)
Whitespace == {" ", "\n"}

Digit == ("0" :> 0) @@ ("1" :> 1) @@ ("2" :> 2) @@ ("3" :> 3) @@ ("5" :> 5)

RECURSIVE lstrip(_)
lstrip(s) == IF s # <<>> /\ Head(s) \in Whitespace THEN lstrip(Tail(s)) ELSE s

RECURSIVE rstrip(_)
rstrip(s) ==
  IF s # <<>> /\ s[Len(s)] \in Whitespace
  THEN rstrip(SubSeq(s, 1, Len(s) - 1))
  ELSE s

\* str.strip()
strip(s) == rstrip(lstrip(s))

\* str.split(sep, n): at most n cuts, the rest of the string is the last piece.
RECURSIVE splitN(_, _, _)
splitN(s, sep, n) ==
  IF n > 0 /\ \E i \in 1..Len(s) : s[i] = sep
  THEN LET k == CHOOSE i \in 1..Len(s) :
                  s[i] = sep /\ \A j \in 1..(i - 1) : s[j] # sep
       IN <<SubSeq(s, 1, k - 1)>> \o splitN(SubSeq(s, k + 1, Len(s)), sep, n - 1)
  ELSE <<s>>

splitAtMost(s, sep) == splitN(s, sep, 4)

\* str.split(sep): the pieces between the separators, empty pieces included.
RECURSIVE split(_, _)
split(s, sep) ==
  IF \E i \in 1..Len(s) : s[i] = sep
  THEN LET k == CHOOSE i \in 1..Len(s) :
                  s[i] = sep /\ \A j \in 1..(i - 1) : s[j] # sep
       IN <<SubSeq(s, 1, k - 1)>> \o split(SubSeq(s, k + 1, Len(s)), sep)
  ELSE <<s>>

\* str.isspace(): at least one character and nothing but whitespace.
isspace(s) == s # <<>> /\ \A i \in 1..Len(s) : s[i] \in Whitespace

\* The number written by a run of decimal digits.
RECURSIVE Decimal(_)
Decimal(s) ==
  IF s = <<>> THEN 0
  ELSE 10 * Decimal(SubSeq(s, 1, Len(s) - 1)) + Digit[s[Len(s)]]

\* float(x) and int(x) over the model's characters: surrounding whitespace is
\* dropped, one leading minus sign is accepted, the rest must be a non-empty
\* run of digits; anything else raises ValueError.
Numeral(x) ==
  LET b == strip(x)
      negative == b # <<>> /\ Head(b) = "-"
      digits == IF negative THEN Tail(b) ELSE b
  IN IF digits # <<>> /\ \A i \in 1..Len(digits) : digits[i] \in DOMAIN Digit
     THEN [error |-> "none",
           value |-> IF negative THEN 0 - Decimal(digits) ELSE Decimal(digits)]
     ELSE [error |-> "ValueError", value |-> 0]

\* A float() that answers 0 for what is not a number.
floatOrZero(x) == [error |-> "none", value |-> Numeral(x).value]

float(x) == Numeral(x)

int(x) == Numeral(x)

\* What one pass of load_worklist's loop, or the whole call, comes to: the
\* commands it appends, or the exception that leaves the coroutine.
Ok(cmds) == [error |-> "none", commands |-> cmds]

Failed(e) == [error |-> e, commands |-> <<>>]

\* The body of load_worklist's loop for one line.  parts[k] of the code is
\* parts[k + 1] here; a dict display evaluates its values left to right, so a
\* bad cycles field of an M record is reported before a missing volume.
ParseLine(line) ==
  IF line = <<>> \/ isspace(line) THEN Ok(<<>>)
  ELSE LET parts == split(line, ";")
           cmd == parts[1]
       IN CASE cmd \in {<<"A">>, <<"D">>} ->
                 IF Len(parts) < 5 THEN Failed("IndexError")
                 ELSE IF float(parts[5]).error # "none" THEN Failed("ValueError")
                 ELSE Ok(<<[type |-> IF cmd = <<"A">> THEN "aspirate" ELSE "dispense",
                            plate |-> parts[2],
                            well |-> parts[3],
                            volume |-> float(parts[5]).value]>>)
            [] cmd = <<"W">> -> Ok(<<[type |-> "wash"]>>)
            [] cmd = <<"B">> -> Ok(<<[type |-> "break"]>>)
            [] cmd = <<"M">> ->
                 IF Len(parts) < 4 THEN Failed("IndexError")
                 ELSE IF int(parts[4]).error # "none" THEN Failed("ValueError")
                 ELSE IF Len(parts) < 5 THEN Failed("IndexError")
                 ELSE IF float(parts[5]).error # "none" THEN Failed("ValueError")
                 ELSE Ok(<<[type |-> "mix",
                            plate |-> parts[2],
                            well |-> parts[3],
                            cycles |-> int(parts[4]).value,
                            volume |-> float(parts[5]).value]>>)
            [] OTHER -> Ok(<<>>)

\* A loop that puts each parsed command in front of the earlier ones.
RECURSIVE ParseLinesReversed(_, _)
ParseLinesReversed(lines, cmds) ==
  IF lines = <<>> THEN Ok(cmds)
  ELSE LET r == ParseLine(Head(lines))
       IN IF r.error # "none" THEN r
          ELSE ParseLinesReversed(Tail(lines), r.commands \o cmds)

\* The loop of load_worklist: an exception ends it, and the call, at once.
RECURSIVE ParseLines(_, _)
ParseLines(lines, cmds) ==
  IF lines = <<>> THEN Ok(cmds)
  ELSE LET r == ParseLine(Head(lines))
       IN IF r.error # "none" THEN r
          ELSE ParseLines(Tail(lines), cmds \o r.commands)

\* Path.read_text() of a file written from these lines.
RECURSIVE read_text(_)
read_text(lines) ==
  IF lines = <<>> THEN <<>>
  ELSE IF Len(lines) = 1 THEN lines[1]
  ELSE lines[1] \o <<"\n">> \o read_text(Tail(lines))

\* The outcome of load_worklist(worklist_path).
LoadWorklist(exists, lines) ==
  IF ~exists THEN Failed("FileNotFoundError")
  ELSE ParseLines(split(strip(read_text(lines)), "\n"), <<>>)

(***************************************************************************)
(* Worklist files: up to MaxLines lines, each one of the records of the    *)
(* example worklist (with one-letter names), a record with an extra field, *)
(* a malformed record, a record with an unknown code or a blank line.      *)
(***************************************************************************)
MaxLines == 2

LineA == <<"A", ";", "s", ";", "a", ";", ";", "5">>
LineD == <<"D", ";", "d", ";", "a", ";", ";", "5">>
LineW == <<"W", ";">>
LineB == <<"B", ";">>
LineM == <<"M", ";", "d", ";", "a", ";", "2", ";", "5">>
LineMixThree == <<"M", ";", "d", ";", "a", ";", "3", ";", "5">>
LineExtra == <<"A", ";", "s", ";", "a", ";", ";", "5", ";", "z">>
LineExtraMix == <<"M", ";", "d", ";", "a", ";", "2", ";", "5", ";", ";", "z">>
LineUnknown == <<"X", ";", "s", ";", "a">>
LineShort == <<"A", ";", "s", ";", "a", ";", "5">>
LineShortMix == <<"M", ";", "d", ";", "a", ";", "2">>
LineBadVolume == <<"D", ";", "d", ";", "a", ";", ";", "x">>
LineBadCycles == <<"M", ";", "d", ";", "a", ";", "x", ";", "5">>
LineBlank == <<" ", " ">>

Lines == {LineA, LineD, LineW, LineB, LineM, LineMixThree, LineExtra, LineExtraMix, LineUnknown,
          LineShort, LineShortMix, LineBadVolume, LineBadCycles, LineBlank}

Files == UNION {[1..n -> Lines] : n \in 0..MaxLines}

IdleLoad == [pc |-> "idle", exists |-> FALSE, lines |-> <<>>,
             error |-> "none", commands |-> <<>>]

IdleRun == [pc |-> "idle", commands |-> <<>>, i |-> 0, error |-> "none",
            elapsed |-> 0]

simulated_backend == <<session, commands, backend, task, status>>

CommandTypes == {"aspirate", "dispense", "wash", "break", "mix"}

\* The first command from position i on that a branch of execute_commands
\* handles; a command of another type is passed over without a log line or
\* a sleep.
NextHandled(cmds, i) ==
  IF \E j \in i..Len(cmds) : cmds[j].type \in CommandTypes
  THEN CHOOSE j \in i..Len(cmds) :
         /\ cmds[j].type \in CommandTypes
         /\ \A k \in i..(j - 1) : cmds[k].type \notin CommandTypes
  ELSE Len(cmds) + 1

\* A branch that books the command: an aspirate takes its volume out of
\* the well, a dispense and a mix put theirs in.
LedgerBooked(ls, cmd) ==
  IF cmd.type \in {"aspirate", "dispense", "mix"}
  THEN DictSet(ls, <<cmd.plate, cmd.well>>,
               DictGet(ls, <<cmd.plate, cmd.well>>, 0)
                 + (IF cmd.type = "aspirate" THEN 0 - cmd.volume ELSE cmd.volume))
  ELSE ls

\* self.liquid_states after the branch of execute_commands for cmd: every
\* branch is a logger.info and an asyncio.sleep, none writes the dict.
LedgerAfter(ls, cmd) == ls

\* self.tip_states after the branch for cmd, likewise.
TipsAfter(ts, cmd) == ts

\* A mix that sleeps 0.3 s whatever its cycles.
DurationOneCycle(cmd) ==
  CASE cmd.type \in {"aspirate", "dispense"} -> 5
    [] cmd.type = "wash" -> 10
    [] cmd.type = "break" -> 2
    [] cmd.type = "mix" -> 3

\* The argument of the asyncio.sleep of the branch for cmd, in tenths of a
\* second: 0.5, 0.5, 1.0, 0.2 and cycles * 0.3.
Duration(cmd) ==
  CASE cmd.type \in {"aspirate", "dispense"} -> 5
    [] cmd.type = "wash" -> 10
    [] cmd.type = "break" -> 2
    [] cmd.type = "mix" -> cmd.cycles * 3

\* The loop of execute_commands from position i up to its next asyncio.sleep
\* (after the log line of the command) or to the return; log is the log of
\* this call so far.
RunLoop(r, i, log) ==
  LET j == NextHandled(r.commands, i)
  IN IF j > Len(r.commands)
     THEN /\ run' = [r EXCEPT !.pc = "returned", !.i = j]
          /\ executed' = log
          /\ UNCHANGED simulator_state
     ELSE /\ run' = [r EXCEPT !.pc = "sleeping", !.i = j]
          /\ executed' = Append(log, r.commands[j])
          /\ simulator_liquid_states' = LedgerAfter(simulator_liquid_states, r.commands[j])
          /\ simulator_tip_states' = TipsAfter(simulator_tip_states, r.commands[j])

\* Wells of the worklist records and the volume the harness writes into
\* simulator.liquid_states before the worklist is loaded.
SimulatorWells == {<<<<"s">>, <<"a">>>>, <<<<"d">>, <<"a">>>>}

SimulatorSeedVolumes == {10}

PreseedSimulator ==
  /\ load.pc = "idle"
  /\ run.pc = "idle"
  /\ \E w \in SimulatorWells, v \in SimulatorSeedVolumes :
       /\ w \notin DOMAIN simulator_liquid_states
       /\ simulator_liquid_states' = DictSet(simulator_liquid_states, w, v)
  /\ UNCHANGED <<connected, load, run, executed, simulator_tip_states,
                 simulated_backend, sila_backend, other_objects>>

\* TecanSimulator.connect
connect ==
  /\ run.pc = "idle"
  /\ connected' = TRUE
  /\ UNCHANGED <<load, run, executed, simulator_state,
                 simulated_backend, sila_backend, other_objects>>

\* TecanSimulator.disconnect
disconnect ==
  /\ run.pc = "idle"
  /\ connected' = FALSE
  /\ UNCHANGED <<load, run, executed, simulator_state,
                 simulated_backend, sila_backend, other_objects>>

\* TecanSimulator.load_worklist on a missing file or on a file of Files; the
\* script loads one worklist in a run.
load_worklist ==
  /\ run.pc = "idle"
  /\ load.pc = "idle"
  /\ \E exists \in BOOLEAN, lines \in Files :
       /\ exists \/ lines = <<>>
       /\ LET r == LoadWorklist(exists, lines)
          IN load' = [pc |-> IF r.error = "none" THEN "returned" ELSE "raised",
                      exists |-> exists,
                      lines |-> lines,
                      error |-> r.error,
                      commands |-> r.commands]
  /\ UNCHANGED <<connected, run, executed, simulator_state,
                 simulated_backend, sila_backend, other_objects>>

\* TecanSimulator.execute_commands(commands) with the commands load_worklist
\* returned, up to its raise or its first suspension.
execute_commands ==
  /\ run.pc = "idle"
  /\ load.pc = "returned"
  /\ LET r == [IdleRun EXCEPT !.commands = load.commands]
     IN IF ~connected
        THEN /\ run' = [r EXCEPT !.pc = "raised",
                                 !.error = "Not connected to simulator"]
             /\ executed' = <<>>
             /\ UNCHANGED simulator_state
        ELSE RunLoop(r, 1, <<>>)
  /\ UNCHANGED <<connected, load, simulated_backend, sila_backend, other_objects>>

\* The asyncio.sleep of execute_commands is over.
RunWake ==
  /\ run.pc = "sleeping"
  /\ RunLoop([run EXCEPT !.elapsed = @ + Duration(run.commands[run.i])],
             run.i + 1, executed)
  /\ UNCHANGED <<connected, load, simulated_backend, sila_backend, other_objects>>

\* The caller of execute_commands has seen it return or raise.
RunContinues ==
  /\ run.pc \in {"returned", "raised"}
  /\ run' = IdleRun
  /\ UNCHANGED <<connected, load, executed, simulator_state,
                 simulated_backend, sila_backend, other_objects>>

\* No get_status call yet.  taken: the caller holds a returned dict;
\* tip_states, liquid_states: the dict objects its entries refer to, here
\* always "self", the backend's own self._tip_states and
\* self._liquid_states; picked_up_resource: the name (or None) computed at
\* the call; at_call: the contents at the call; writes: how often the caller
\* has written into the returned value.
NoStatus == [taken |-> FALSE, tip_states |-> "self", liquid_states |-> "self",
             picked_up_resource |-> None, at_call |-> EmptySnapshot, writes |-> 0]

\* TecanFluentSimulatorBackend.get_status: 'tip_states': self._tip_states and
\* 'liquid_states': self._liquid_states put the backend's own dicts into the
\* result.
get_status ==
  /\ ~status.taken
  /\ \A t \in Tasks : task[t].pc = "idle"
  /\ status' = [NoStatus EXCEPT !.taken = TRUE,
                                !.picked_up_resource = picked_up_resource,
                                !.at_call = Snapshot]
  /\ UNCHANGED <<session, commands, backend, task, simulator, sila_backend, other_objects>>

\* The caller writes a tip flag into the value it got:
\* status['tip_states'][channel] = flag.
ModifyStatus ==
  /\ status.taken
  /\ status.writes = 0
  /\ \A t \in Tasks : task[t].pc = "idle"
  /\ \E channel \in Channels, flag \in BOOLEAN :
       IF status.tip_states = "self"
       THEN /\ tip_states' = DictSet(tip_states, channel, flag)
            /\ status' = [status EXCEPT !.writes = 1]
       ELSE status' = [status EXCEPT !.writes = 1] /\ UNCHANGED tip_states
  /\ UNCHANGED <<session, commands, liquid_states, picked_up_resource, task,
                 simulator, sila_backend, other_objects>>

InitBackend ==
  /\ setup_finished = FALSE
  /\ started = FALSE
  /\ initialized = FALSE
  /\ runtime_state = "idle"
  /\ commands = <<>>
  /\ tip_states = EmptyDict
  /\ liquid_states = EmptyDict
  /\ picked_up_resource = None
  /\ task = [t \in Tasks |-> IdleTask]
  /\ status = NoStatus

\* TecanSimulator.__init__
InitSimulator ==
  /\ connected = FALSE
  /\ load = IdleLoad
  /\ run = IdleRun
  /\ executed = <<>>
  /\ simulator_tip_states = EmptyDict
  /\ simulator_liquid_states = EmptyDict

\* ---------------------------------------------------------------------------
\* TecanSiLABackend (backends/tecan/sila.py): the backend that drives a Tecan
\* Fluent through the SiLA2 connector.  The connector itself is outside the
\* repository: each of its calls either returns or raises, and the model
\* takes both outcomes.
\* ---------------------------------------------------------------------------

SiLAHosts == {None, "127.0.0.1"}
Usernames == {None, "", "test_user"}
Passwords == {None, "", "test_pass"}

\* Python truth value of an Optional[str]: None and "" are false.
Truthy(x) == x /= None /\ x /= ""

\* One call on the Fluent class or on the connector: the method and its
\* arguments as a set of <<name, value>> pairs.
Call(method, args) == [method |-> method, args |-> args]

NoConfig ==
  [constructed |-> FALSE, host |-> None, port |-> 50052, insecure |-> TRUE,
   username |-> None, password |-> None, discovery_time |-> 10]

\* swallowed: an exception the call caught and dropped (stop does that).
NoSiLACall ==
  [op |-> "none", error |-> None, history |-> "new", swallowed |-> FALSE,
   ops |-> <<>>]

\* What the backend has been through once the last call is over: "new"
\* (constructed, never set up), "set_up" (the last setup returned),
\* "setup_failed" (the last setup raised) or "stopped".
Phase ==
  CASE sila_call.op = "setup" ->
         IF sila_call.error = None THEN "set_up" ELSE "setup_failed"
    [] sila_call.op = "stop" -> "stopped"
    [] OTHER -> sila_call.history

AcquireAlwaysDirect(config) ==
  [call |-> Call("Fluent", {<<"host", config.host>>, <<"port", config.port>>,
                            <<"insecure", config.insecure>>}),
   connector |-> "direct"]

\* setup: if self.host is None: Fluent.discover(self.discovery_time)
\*        else: Fluent(self.host, self.port, insecure=self.insecure)
Acquire(config) ==
  IF config.host = None
  THEN [call |-> Call("Fluent.discover",
                      {<<"discovery_time", config.discovery_time>>}),
        connector |-> "discovered"]
  ELSE [call |-> Call("Fluent", {<<"host", config.host>>,
                                 <<"port", config.port>>,
                                 <<"insecure", config.insecure>>}),
        connector |-> "direct"]

StartArgumentsAsGiven(username, password) ==
  (IF Truthy(username) THEN {<<"username", username>>} ELSE {})
    \cup (IF Truthy(password) THEN {<<"password", password>>} ELSE {})

\* setup: if self.username and self.password:
\*          self.fluent.start_fluent(username=..., password=...)
\*        else: self.fluent.start_fluent()
StartArguments(username, password) ==
  IF Truthy(username) /\ Truthy(password)
  THEN {<<"username", username>>, <<"password", password>>}
  ELSE {}

NotSetUpNever(f) == FALSE

\* The guard of every operation: if not self.fluent
NotSetUp(f) == f = None

\* TecanSiLABackend.__init__
TecanSiLABackend ==
  /\ ~sila_config.constructed
  /\ \E host \in SiLAHosts, username \in Usernames, password \in Passwords :
       sila_config' = [NoConfig EXCEPT !.constructed = TRUE, !.host = host,
                                       !.username = username,
                                       !.password = password]
  /\ fluent' = None
  /\ UNCHANGED <<connector_calls, sila_call>>
  /\ UNCHANGED <<simulated_backend, simulator, other_objects>>

\* setup: raise RuntimeError(f"Failed to connect to Tecan Fluent: {str(e)}"),
\* where e is what Fluent.discover / Fluent(...) or start_fluent raised.
FailedToConnect == "Failed to connect to Tecan Fluent: no server"
FailedToStart == "Failed to connect to Tecan Fluent: start failed"

\* TecanSiLABackend.setup.  self.fluent is assigned before start_fluent is
\* called, so a start_fluent that raises leaves the connector in self.fluent;
\* a discovery or construction that raises leaves self.fluent as it was.
sila_setup ==
  /\ sila_config.constructed
  /\ \E acquired \in BOOLEAN, start_ok \in BOOLEAN :
       LET got == Acquire(sila_config)
           start == Call("start_fluent",
                         StartArguments(sila_config.username,
                                        sila_config.password))
       IN IF ~acquired
          THEN /\ connector_calls' = <<got.call>>
               /\ sila_call' = [op |-> "setup", error |-> FailedToConnect,
                                history |-> Phase, ops |-> <<>>,
                                swallowed |-> FALSE]
               /\ UNCHANGED fluent
          ELSE /\ fluent' = got.connector
               /\ connector_calls' = <<got.call, start>>
               /\ sila_call' = [op |-> "setup",
                                error |-> IF start_ok THEN None
                                          ELSE FailedToStart,
                                history |-> Phase, ops |-> <<>>,
                                swallowed |-> FALSE]
  /\ UNCHANGED sila_config
  /\ UNCHANGED <<simulated_backend, simulator, other_objects>>

\* TecanSiLABackend.stop: an exception of stop_fluent is swallowed, and
\* self.fluent = None follows in both cases.
sila_stop ==
  /\ sila_config.constructed
  /\ IF fluent /= None
     THEN /\ connector_calls' = <<Call("stop_fluent", {})>>
          /\ \E raised \in BOOLEAN :
               sila_call' = [op |-> "stop", error |-> None,
                             history |-> Phase, ops |-> <<>>,
                                swallowed |-> raised]
          /\ fluent' = None
     ELSE /\ connector_calls' = <<>>
          /\ sila_call' = [op |-> "stop", error |-> None,
                           history |-> Phase, ops |-> <<>>,
                                swallowed |-> FALSE]
          /\ UNCHANGED fluent
  /\ UNCHANGED sila_config
  /\ UNCHANGED <<simulated_backend, simulator, other_objects>>

SiLAOperations ==
  {"pick_up_tips", "drop_tips", "aspirate", "dispense",
   "pick_up_resource", "move_picked_up_resource", "drop_resource"}

\* The connector method each operation awaits, once per element.
ConnectorMethod(op) ==
  CASE op = "pick_up_tips" -> "pick_up_tip"
    [] op = "drop_tips" -> "drop_tip"
    [] op = "aspirate" -> "aspirate"
    [] op = "dispense" -> "dispense"
    [] op = "pick_up_resource" -> "pick_up_labware"
    [] op = "move_picked_up_resource" -> "move_labware"
    [] op = "drop_resource" -> "place_labware"

SiLATipOperations == {"pick_up_tips", "drop_tips"}
SiLALiquidOperations == {"aspirate", "dispense"}

SiLAPositions == {"A1", "B1"}

\* Pickup / Drop ops: the code reads op.tips, a list of tips.
SiLATipOps == {[tips |-> <<"A1">>], [tips |-> <<"A1", "B1">>]}

\* SingleChannelAspiration / SingleChannelDispense ops.
SiLALiquidOps ==
  {[resource |-> "A1", volume |-> 100, flow_rate |-> 100,
    liquid_height |-> 1, blow_out |-> TRUE],
   [resource |-> "B1", volume |-> 50, flow_rate |-> 20,
    liquid_height |-> 0, blow_out |-> FALSE]}

\* ResourcePickup / ResourceMove / ResourceDrop ops.
SiLAResourceOps == {[resource |-> p] : p \in SiLAPositions}

SiLAOpsOf(op) ==
  CASE op \in SiLATipOperations -> SiLATipOps
    [] op \in SiLALiquidOperations -> SiLALiquidOps
    [] OTHER -> SiLAResourceOps

SiLABatches(op) == UNION {[1..n -> SiLAOpsOf(op)] : n \in 1..MaxBatch}

\* x=pos.x, y=pos.y, z=pos.z of get_absolute_location(), as one value.
PositionArguments(p) == {<<"position", p>>}

LiquidArgumentsNoBlowOut(o) ==
  PositionArguments(o.resource)
    \cup {<<"volume", o.volume>>, <<"flow_rate", o.flow_rate>>,
          <<"liquid_height", o.liquid_height>>}

\* volume=op.volume, flow_rate=op.flow_rate,
\* liquid_height=op.liquid_height, blow_out=op.blow_out
LiquidArguments(o) ==
  PositionArguments(o.resource)
    \cup {<<"volume", o.volume>>, <<"flow_rate", o.flow_rate>>,
          <<"liquid_height", o.liquid_height>>, <<"blow_out", o.blow_out>>}

\* The connector calls of one element of ops: one per tip of a Pickup or
\* Drop, one for any other op.
ElementCalls(op, o) ==
  CASE op \in SiLATipOperations ->
         [k \in 1..Len(o.tips) |->
            Call(ConnectorMethod(op), PositionArguments(o.tips[k]))]
    [] op \in SiLALiquidOperations ->
         <<Call(ConnectorMethod(op), LiquidArguments(o))>>
    [] OTHER -> <<Call(ConnectorMethod(op), PositionArguments(o.resource))>>

RECURSIVE OperationCalls(_, _)
\* for op in ops: ... await self.fluent.<method>(...)
OperationCalls(op, ops) ==
  IF ops = <<>> THEN <<>>
  ELSE ElementCalls(op, Head(ops)) \o OperationCalls(op, Tail(ops))

\* pick_up_tips, drop_tips, aspirate, dispense, pick_up_resource,
\* move_picked_up_resource, drop_resource: the guard, then the connector
\* calls of the elements in turn; the first connector call that raises ends
\* the operation.  failing is the call that raises (0: none).
sila_operation ==
  /\ sila_config.constructed
  /\ \E op \in SiLAOperations :
     \E ops \in SiLABatches(op) :
       IF NotSetUp(fluent)
       THEN /\ connector_calls' = <<>>
            /\ sila_call' = [op |-> op, history |-> Phase, ops |-> ops,
                             swallowed |-> FALSE,
                             error |-> "Backend not set up. Did you call setup()?"]
       ELSE LET all == OperationCalls(op, ops)
            IN \E failing \in 0..Len(all) :
                 /\ connector_calls' =
                      SubSeq(all, 1, IF failing = 0 THEN Len(all) ELSE failing)
                 /\ sila_call' = [op |-> op, history |-> Phase, ops |-> ops,
                                  swallowed |-> FALSE,
                                  error |-> IF failing = 0 THEN None
                                            ELSE "connector error"]
  /\ UNCHANGED <<sila_config, fluent>>
  /\ UNCHANGED <<simulated_backend, simulator, other_objects>>

\* num_channels as the tests construct the backend.
NumChannels == 8

\* LiquidHandlerBackend.serialize of the pylabrobot library, which
\* TecanSiLABackend.serialize extends: the name of the class.
SuperSerialize == {<<"type", "TecanSiLABackend">>}

PasswordFieldInClear(password) == password

\* serialize: "password": "***" if self.password else None
PasswordField(password) == IF Truthy(password) THEN "***" ELSE None

\* TecanSiLABackend.serialize: the dictionary as a set of <<key, value>>
\* pairs.
Serialize(config) ==
  SuperSerialize \cup
    {<<"num_channels", NumChannels>>, <<"host", config.host>>,
     <<"port", config.port>>, <<"insecure", config.insecure>>,
     <<"username", config.username>>,
     <<"password", PasswordField(config.password)>>}

\* A call of serialize() on the constructed backend; it reads the
\* attributes and changes none.
sila_serialize ==
  /\ sila_config.constructed
  /\ serialized' = Serialize(sila_config)
  /\ UNCHANGED <<sila_backend, simulated_backend, simulator>>
  /\ UNCHANGED <<wrappers, method_backend, fluent_backend>>

InitSiLA ==
  /\ sila_config = NoConfig
  /\ fluent = None
  /\ connector_calls = <<>>
  /\ sila_call = NoSiLACall

\* ---------------------------------------------------------------------------
\* TecanFluentConnection (backends/tecan/fluent_connection.py) and
\* UnitelabsSilasBackend (backends/unitelabs_silas.py): two wrappers around a
\* client of the unitelabs package.  Both keep the client in self.client and
\* guard every operation with "if not self.client".
\* ---------------------------------------------------------------------------
Wrappers == {"TecanFluentConnection", "UnitelabsSilasBackend"}

\* The method that connects a wrapper and the one that disconnects it.
ConnectMethod(w) == IF w = "TecanFluentConnection" THEN "connect" ELSE "setup"
DisconnectMethod(w) == IF w = "TecanFluentConnection" THEN "disconnect" ELSE "stop"

WrapperOperations(w) ==
  IF w = "TecanFluentConnection"
  THEN {"pick_up_tips", "drop_tips", "aspirate", "dispense", "execute_worklist"}
  ELSE {"pick_up_tips", "drop_tips", "aspirate", "dispense",
        "pick_up_resource", "move_picked_up_resource", "drop_resource"}

\* The client method an operation awaits.
ClientMethod(w, op) ==
  CASE w = "UnitelabsSilasBackend" /\ op = "move_picked_up_resource" -> "move_resource"
    [] OTHER -> op

\* TecanFluentConnection forwards one call with all positions;
\* UnitelabsSilasBackend one call per element of ops.
ForwardedCalls(w) == IF w = "TecanFluentConnection" THEN {1} ELSE 1..MaxBatch

NotConnectedError(w) ==
  IF w = "TecanFluentConnection"
  THEN "Not connected to Tecan Fluent Control"
  ELSE "Backend not set up. Did you call setup()?"

\* forwarded: the client methods the call has awaited, in order.
NoConnectionCall ==
  [op |-> "none", error |-> None, forwarded |-> <<>>, history |-> "new"]

\* What a wrapper has been through once its last call is over: "new",
\* "connected" (the last connect / setup returned), "connect_failed" (it
\* raised), "disconnected" (the last disconnect / stop returned) or
\* "disconnect_failed" (it raised).
ConnectionPhase(w) ==
  LET c == connection_call[w]
  IN CASE c.op \in {"connect", "setup"} ->
            IF c.error = None THEN "connected" ELSE "connect_failed"
       [] c.op \in {"disconnect", "stop"} ->
            IF c.error = None THEN "disconnected" ELSE "disconnect_failed"
       [] OTHER -> c.history

\* connect / setup: self.client = <Client>(self.host, self.port), then
\* await self.client.connect().  The constructor or connect() may raise; the
\* client is in self.client as soon as the constructor has returned.
Connect(w) ==
  /\ \E outcome \in {"connected", "no client", "refused"} :
       /\ client' = [client EXCEPT ![w] = IF outcome = "no client" THEN @
                                          ELSE "client"]
       /\ connection_call' =
            [connection_call EXCEPT ![w] =
               [op |-> ConnectMethod(w),
                error |-> IF outcome = "connected" THEN None ELSE outcome,
                forwarded |-> IF outcome = "no client" THEN <<>>
                              ELSE <<"connect">>,
                history |-> ConnectionPhase(w)]]
  /\ UNCHANGED <<simulated_backend, simulator, sila_backend>>
  /\ UNCHANGED <<serialized, method_backend, fluent_backend>>

\* disconnect / stop: if self.client: await self.client.disconnect();
\* self.client = None.  A disconnect() that raises leaves self.client set.
Disconnect(w) ==
  /\ IF client[w] /= None
     THEN \E raised \in BOOLEAN :
            /\ client' = [client EXCEPT ![w] = IF raised THEN @ ELSE None]
            /\ connection_call' =
                 [connection_call EXCEPT ![w] =
                    [op |-> DisconnectMethod(w),
                     error |-> IF raised THEN "disconnect failed" ELSE None,
                     forwarded |-> <<"disconnect">>,
                     history |-> ConnectionPhase(w)]]
     ELSE /\ connection_call' =
                 [connection_call EXCEPT ![w] =
                    [op |-> DisconnectMethod(w), error |-> None,
                     forwarded |-> <<>>, history |-> ConnectionPhase(w)]]
          /\ UNCHANGED client
  /\ UNCHANGED <<simulated_backend, simulator, sila_backend>>
  /\ UNCHANGED <<serialized, method_backend, fluent_backend>>

\* An operation: the guard "if not self.client", then the client call(s);
\* the first client call that raises ends the operation.
Operate(w) ==
  /\ \E op \in WrapperOperations(w), n \in ForwardedCalls(w) :
       IF client[w] = None
       THEN connection_call' =
              [connection_call EXCEPT ![w] =
                 [op |-> op, error |-> NotConnectedError(w),
                  forwarded |-> <<>>, history |-> ConnectionPhase(w)]]
       ELSE \E failing \in 0..n :
              connection_call' =
                [connection_call EXCEPT ![w] =
                   [op |-> op,
                    error |-> IF failing = 0 THEN None ELSE "client error",
                    forwarded |-> [k \in 1..(IF failing = 0 THEN n ELSE failing)
                                     |-> ClientMethod(w, op)],
                    history |-> ConnectionPhase(w)]]
  /\ UNCHANGED client
  /\ UNCHANGED <<simulated_backend, simulator, sila_backend>>
  /\ UNCHANGED <<serialized, method_backend, fluent_backend>>

InitWrappers ==
  /\ client = [w \in Wrappers |-> None]
  /\ connection_call = [w \in Wrappers |-> NoConnectionCall]

\* ---------------------------------------------------------------------------
\* TecanSiLABackend of backends/tecan_silas_backend.py: the backend that
\* drives FluentControl through a SiLA client and its FluentControlService.
\* Each operation creates a method, loads it and runs it with
\* execute_method, which polls GetMethodStatus.  Every call on the client
\* or the service either returns or raises.
\* ---------------------------------------------------------------------------
MethodNames == {None, "method"}

\* response.method_id of LoadMethod; "" is an id that is not None but false.
MethodIds == {"m1", ""}

\* status.state as the device reports it; "Stopped" stands for any state the
\* loop does not know.
DeviceStates == {"Running", "Completed", "Error", "Aborted", "Stopped"}

NoSilasConfig == [constructed |-> FALSE, method_name |-> None]

\* pc: "idle", "polling" (suspended in await GetMethodStatus), "returned" or
\* "raised"; given: the method_id argument of execute_method; loaded:
\* _current_method_id at the entry of the call; calls: the calls made on the
\* client and on the service; states: the states GetMethodStatus returned.
NoSilasCall ==
  [op |-> "none", pc |-> "idle", given |-> None, loaded |-> None,
   calls |-> <<>>, states |-> <<>>, error |-> None, swallowed |-> FALSE,
   history |-> "new"]

\* What the backend has been through once the last call is over.
SilasPhase ==
  CASE silas_call.op = "setup" ->
         IF silas_call.pc = "returned" THEN "set_up" ELSE "setup_failed"
    [] silas_call.op = "stop" ->
         IF silas_call.pc = "returned" THEN "stopped" ELSE "stop_failed"
    [] OTHER -> silas_call.history

\* A new call: what every call of the backend starts from.
SilasCall(op) ==
  [NoSilasCall EXCEPT !.op = op, !.loaded = current_method_id,
                      !.history = SilasPhase]

\* No coroutine of the backend is suspended.
SilasIdle == silas_call.pc /= "polling"

\* TecanSiLABackend.__init__
SilasBackend ==
  /\ ~silas_config.constructed
  /\ \E name \in MethodNames :
       silas_config' = [constructed |-> TRUE, method_name |-> name]
  /\ UNCHANGED <<silas_client, fluent_service, current_method_id, silas_call>>
  /\ UNCHANGED <<simulated_backend, simulator, sila_backend>>
  /\ UNCHANGED <<serialized, wrappers, fluent_backend>>

\* setup: SiLAClient(...), get_feature("FluentControlService") and, if
\* self.method_name, load_method(self.method_name).  Each attribute is
\* written as soon as its call has returned.
silas_setup ==
  /\ silas_config.constructed
  /\ SilasIdle
  /\ \E outcome \in {"set up", "no client", "no service", "load failed"},
        id \in MethodIds :
       LET c == SilasCall("setup")
           loads == Truthy(silas_config.method_name)
       IN /\ outcome = "load failed" => loads
          /\ silas_client' = IF outcome = "no client" THEN silas_client
                             ELSE "client"
          /\ fluent_service' = IF outcome \in {"no client", "no service"}
                               THEN fluent_service ELSE "service"
          /\ current_method_id' = IF outcome = "set up" /\ loads THEN id
                                  ELSE current_method_id
          /\ silas_call' =
               [c EXCEPT !.pc = IF outcome = "set up" THEN "returned"
                                ELSE "raised",
                         !.error = IF outcome = "set up" THEN None ELSE outcome,
                         !.calls =
                           CASE outcome = "no client" -> <<"SiLAClient">>
                             [] outcome = "no service" ->
                                  <<"SiLAClient", "get_feature">>
                             [] OTHER ->
                                  <<"SiLAClient", "get_feature">>
                                    \o (IF loads THEN <<"LoadMethod">> ELSE <<>>)]
  /\ UNCHANGED silas_config
  /\ UNCHANGED <<simulated_backend, simulator, sila_backend>>
  /\ UNCHANGED <<serialized, wrappers, fluent_backend>>

MethodLoadedAlways(id) == TRUE

\* stop: if self._current_method_id
MethodLoaded(id) == Truthy(id)

\* stop: nothing without a client; otherwise StopMethod for a loaded method
\* (its exception is dropped), then client.close(), then both attributes
\* are set to None.  A close() that raises leaves both as they were.
silas_stop ==
  /\ silas_config.constructed
  /\ SilasIdle
  /\ LET c == SilasCall("stop")
     IN IF silas_client = None
        THEN /\ silas_call' = [c EXCEPT !.pc = "returned"]
             /\ UNCHANGED <<silas_client, current_method_id>>
        ELSE \E stop_raised \in BOOLEAN, close_raised \in BOOLEAN :
               LET stops == MethodLoaded(current_method_id)
                   calls == (IF stops THEN <<"StopMethod">> ELSE <<>>)
                              \o <<"close">>
               IN /\ stop_raised => stops
                  /\ silas_call' =
                       [c EXCEPT !.pc = IF close_raised THEN "raised"
                                        ELSE "returned",
                                 !.error = IF close_raised THEN "close failed"
                                           ELSE None,
                                 !.swallowed = stop_raised,
                                 !.calls = calls]
                  /\ silas_client' = IF close_raised THEN silas_client ELSE None
                  /\ current_method_id' = IF close_raised THEN current_method_id
                                          ELSE None
  /\ UNCHANGED <<silas_config, fluent_service>>
  /\ UNCHANGED <<simulated_backend, simulator, sila_backend>>
  /\ UNCHANGED <<serialized, wrappers, fluent_backend>>

\* load_method: LoadMethod on self.fluent_service, an attribute that does
\* not exist before setup.
load_method ==
  /\ silas_config.constructed
  /\ SilasIdle
  /\ LET c == SilasCall("load_method")
     IN IF fluent_service = None
        THEN /\ silas_call' = [c EXCEPT !.pc = "raised",
                                        !.error = "AttributeError"]
             /\ UNCHANGED current_method_id
        ELSE \E raised \in BOOLEAN, id \in MethodIds :
               /\ silas_call' =
                    [c EXCEPT !.pc = IF raised THEN "raised" ELSE "returned",
                              !.error = IF raised THEN "load failed" ELSE None,
                              !.calls = <<"LoadMethod">>]
               /\ current_method_id' = IF raised THEN current_method_id ELSE id
  /\ UNCHANGED <<silas_config, silas_client, fluent_service>>
  /\ UNCHANGED <<simulated_backend, simulator, sila_backend>>
  /\ UNCHANGED <<serialized, wrappers, fluent_backend>>

\* The body of execute_method from its entry to the first
\* await GetMethodStatus, for call record c whose calls so far are c.calls
\* and with loaded the value of self._current_method_id.
ExecuteMethod(c, given, loaded) ==
  LET method_id == IF given = None THEN loaded ELSE given
  IN IF method_id = None
     THEN silas_call' = [c EXCEPT !.pc = "raised", !.given = given,
                           !.error = "No method loaded. Call load_method first."]
     ELSE IF fluent_service = None
     THEN silas_call' = [c EXCEPT !.pc = "raised", !.given = given,
                                  !.error = "AttributeError"]
     ELSE \E raised \in BOOLEAN :
            silas_call' =
              [c EXCEPT !.pc = IF raised THEN "raised" ELSE "polling",
                        !.given = given,
                        !.error = IF raised THEN "start failed" ELSE None,
                        !.calls = @ \o <<"StartMethod">>]

execute_method ==
  /\ silas_config.constructed
  /\ SilasIdle
  /\ \E given \in {None} \cup MethodIds :
       ExecuteMethod(SilasCall("execute_method"), given, current_method_id)
  /\ UNCHANGED <<silas_config, silas_client, fluent_service, current_method_id>>
  /\ UNCHANGED <<simulated_backend, simulator, sila_backend>>
  /\ UNCHANGED <<serialized, wrappers, fluent_backend>>

TerminalStates == {"Completed", "Error", "Aborted"}

SucceededUnlessError(state) == state /= "Error"

\* if status.state != "Completed": raise RuntimeError(...)
Succeeded(state) == state = "Completed"

\* await asyncio.sleep(1) in a module that does not import asyncio: the
\* name lookup raises NameError and the coroutine ends.
AwaitSleep(c) ==
  [c EXCEPT !.pc = "raised",
            !.error = "NameError: name 'asyncio' is not defined"]

\* One turn of the while True loop: GetMethodStatus returns a state or
\* raises; a terminal state ends the call, any other state leads to the
\* sleep.
Poll ==
  /\ silas_call.pc = "polling"
  /\ \/ silas_call' = [silas_call EXCEPT !.pc = "raised",
                                         !.error = "status failed",
                                         !.calls = @ \o <<"GetMethodStatus">>]
     \/ \E state \in DeviceStates :
          LET c == [silas_call EXCEPT !.calls = @ \o <<"GetMethodStatus">>,
                                      !.states = @ \o <<state>>]
          IN silas_call' =
               IF state \in TerminalStates
               THEN IF Succeeded(state)
                    THEN [c EXCEPT !.pc = "returned"]
                    ELSE [c EXCEPT !.pc = "raised",
                                   !.error = "Method execution failed"]
               ELSE AwaitSleep(c)
  /\ UNCHANGED <<silas_config, silas_client, fluent_service, current_method_id>>
  /\ UNCHANGED <<simulated_backend, simulator, sila_backend>>
  /\ UNCHANGED <<serialized, wrappers, fluent_backend>>

SilasOperations ==
  {"pick_up_tips", "drop_tips", "aspirate", "dispense",
   "pick_up_resource", "move_picked_up_resource", "drop_resource"}

\* The service call with which an operation creates its method.
CreateMethod(op) ==
  CASE op = "pick_up_tips" -> "CreateTipPickupMethod"
    [] op = "drop_tips" -> "CreateTipDropMethod"
    [] op = "aspirate" -> "CreateAspirationMethod"
    [] op = "dispense" -> "CreateDispenseMethod"
    [] op = "pick_up_resource" -> "CreateResourcePickupMethod"
    [] op = "move_picked_up_resource" -> "CreateResourceMoveMethod"
    [] op = "drop_resource" -> "CreateResourceDropMethod"

\* An operation: the guard "if not self.client", Create...Method,
\* load_method(method_name) and execute_method() up to its first poll.
silas_operation ==
  /\ silas_config.constructed
  /\ SilasIdle
  /\ \E op \in SilasOperations :
       LET c == SilasCall(op)
       IN IF silas_client = None
          THEN /\ silas_call' =
                    [c EXCEPT !.pc = "raised",
                              !.error = "Backend not set up. Did you call setup()?"]
               /\ UNCHANGED current_method_id
          ELSE IF fluent_service = None
          THEN /\ silas_call' = [c EXCEPT !.pc = "raised",
                                          !.error = "AttributeError"]
               /\ UNCHANGED current_method_id
          ELSE \E outcome \in {"loaded", "create failed", "load failed"},
                  id \in MethodIds :
                 IF outcome = "loaded"
                 THEN /\ current_method_id' = id
                      /\ ExecuteMethod(
                           [c EXCEPT !.calls = <<CreateMethod(op), "LoadMethod">>],
                           None, id)
                 ELSE /\ silas_call' =
                           [c EXCEPT !.pc = "raised", !.error = outcome,
                                     !.calls = IF outcome = "create failed"
                                               THEN <<CreateMethod(op)>>
                                               ELSE <<CreateMethod(op),
                                                      "LoadMethod">>]
                      /\ UNCHANGED current_method_id
  /\ UNCHANGED <<silas_config, silas_client, fluent_service>>
  /\ UNCHANGED <<simulated_backend, simulator, sila_backend>>
  /\ UNCHANGED <<serialized, wrappers, fluent_backend>>

InitSilas ==
  /\ silas_config = NoSilasConfig
  /\ silas_client = None
  /\ fluent_service = None
  /\ current_method_id = None
  /\ silas_call = NoSilasCall

\* ---------------------------------------------------------------------------
\* Fluent (backends/tecan/fluent.py): the backend that queues each operation
\* as a method of FluentControl through the SiLA2 connector, or only logs it
\* in simulation mode.  The connector is outside the repository: each of its
\* calls returns or raises.
\* ---------------------------------------------------------------------------
NoFluentMode == [constructed |-> FALSE, simulation_mode |-> FALSE]

\* result: what the call returned ("None", "True", "False"), or "raised".
NoFluentCall ==
  [op |-> "none", calls |-> <<>>, result |-> "None", history |-> "new"]

\* What the backend has been through once the last call is over: "new"
\* (setup never called), "set_up" (the last setup returned), "setup_failed"
\* (the last setup raised) or "stopped".
FluentPhase ==
  CASE fluent_call.op = "setup" ->
         IF fluent_call.result = "None" THEN "set_up" ELSE "setup_failed"
    [] fluent_call.op = "stop" -> "stopped"
    [] OTHER -> fluent_call.history

FluentOperations == {"pick_up_tips", "drop_tips", "aspirate", "dispense"}
WorklistControls ==
  {"clear_worklist", "pause_worklist", "resume_worklist", "stop_worklist"}

\* Fluent.__init__ with valid num_channels, host and port.
Fluent ==
  /\ ~fluent_mode.constructed
  /\ \E simulation_mode \in BOOLEAN :
       fluent_mode' = [constructed |-> TRUE,
                       simulation_mode |-> simulation_mode]
  /\ tecan_fluent' = None
  /\ UNCHANGED fluent_call
  /\ UNCHANGED <<simulated_backend, simulator, sila_backend>>
  /\ UNCHANGED <<serialized, wrappers, method_backend>>

\* What setup does on the connector, in order.  "state" is the read of the
\* property self.fluent.state.
SetupCalls ==
  <<Call("TecanFluent", {}), Call("start_fluent", {}),
    Call("subscribe_state", {}), Call("state", {}),
    Call("get_all_runnable_methods", {})>>

\* Fluent.setup.  It does not look at simulation_mode.  self.fluent is
\* assigned as soon as TecanFluent(...) returns; a start_fluent that raises
\* is logged and dropped; any other step that raises ends setup with the
\* exception.  failing is the step that raises (0: none, never 2).
fluent_setup ==
  /\ fluent_mode.constructed
  /\ \E failing \in {0, 1, 3, 4, 5} :
       /\ tecan_fluent' = IF failing = 1 THEN tecan_fluent ELSE "TecanFluent"
       /\ fluent_call' =
            [op |-> "setup",
             calls |-> IF failing = 0 THEN SetupCalls
                       ELSE SubSeq(SetupCalls, 1, failing),
             result |-> IF failing = 0 THEN "None" ELSE "raised",
             history |-> FluentPhase]
  /\ UNCHANGED fluent_mode
  /\ UNCHANGED <<simulated_backend, simulator, sila_backend>>
  /\ UNCHANGED <<serialized, wrappers, method_backend>>

\* Fluent.stop: if self.fluent: self.fluent = None
fluent_stop ==
  /\ fluent_mode.constructed
  /\ tecan_fluent' = None
  /\ fluent_call' = [op |-> "stop", calls |-> <<>>, result |-> "None",
                     history |-> FluentPhase]
  /\ UNCHANGED fluent_mode
  /\ UNCHANGED <<simulated_backend, simulator, sila_backend>>
  /\ UNCHANGED <<serialized, wrappers, method_backend>>

\* The keys of the parameters dict an operation builds, in order
\* (backend_kwargs empty).
Parameters(op) ==
  IF op \in {"pick_up_tips", "drop_tips"}
  THEN <<"tip_spot", "num_channels">>
  ELSE <<"resource", "volume", "flow_rate", "liquid_height", "blow_out",
         "num_channels">>

\* Fluent.add_to_worklist(method_name, parameters): prepare_method, then
\* set_variable_value for each parameter if the connector has that method;
\* whatever is raised inside is caught and the result is False.  With
\* self.fluent None the attribute lookup raises before any call is made.
\* failing is the call that raises (0: none).
AddToWorklist(connector, method_name, parameters, has_setter, failing) ==
  IF connector = None
  THEN [calls |-> <<>>, result |-> "False"]
  ELSE LET setters ==
             IF has_setter
             THEN [k \in 1..Len(parameters) |->
                     Call("set_variable_value", {<<"name", parameters[k]>>})]
             ELSE <<>>
           all == <<Call("prepare_method",
                         {<<"method_name", method_name>>})>> \o setters
       IN IF failing = 0 \/ failing > Len(all)
          THEN [calls |-> all, result |-> "True"]
          ELSE [calls |-> SubSeq(all, 1, failing), result |-> "False"]

\* Fluent.pick_up_tips, drop_tips, aspirate, dispense: in simulation mode a
\* log line and return; otherwise add_to_worklist, whose result is not
\* looked at.
fluent_operation ==
  /\ fluent_mode.constructed
  /\ \E op \in FluentOperations, has_setter \in BOOLEAN :
     \E failing \in 0..(1 + Len(Parameters(op))) :
       LET added == AddToWorklist(tecan_fluent, op, Parameters(op),
                                  has_setter, failing)
       IN fluent_call' =
            [op |-> op,
             calls |-> IF fluent_mode.simulation_mode THEN <<>>
                       ELSE added.calls,
             result |-> "None",
             history |-> FluentPhase]
  /\ UNCHANGED <<tecan_fluent, fluent_mode>>
  /\ UNCHANGED <<simulated_backend, simulator, sila_backend>>
  /\ UNCHANGED <<serialized, wrappers, method_backend>>

\* Fluent.clear_worklist, pause_worklist, resume_worklist, stop_worklist:
\* True in simulation mode; otherwise the connector's method of the same
\* name, True if it returns and False if anything is raised (with
\* self.fluent None, before any call).
worklist_control ==
  /\ fluent_mode.constructed
  /\ \E op \in WorklistControls, raises \in BOOLEAN :
       fluent_call' =
         IF fluent_mode.simulation_mode
         THEN [op |-> op, calls |-> <<>>, result |-> "True",
               history |-> FluentPhase]
         ELSE IF tecan_fluent = None
         THEN [op |-> op, calls |-> <<>>, result |-> "False",
               history |-> FluentPhase]
         ELSE [op |-> op, calls |-> <<Call(op, {})>>,
               result |-> IF raises THEN "False" ELSE "True",
               history |-> FluentPhase]
  /\ UNCHANGED <<tecan_fluent, fluent_mode>>
  /\ UNCHANGED <<simulated_backend, simulator, sila_backend>>
  /\ UNCHANGED <<serialized, wrappers, method_backend>>

InitFluent ==
  /\ tecan_fluent = None
  /\ fluent_mode = NoFluentMode
  /\ fluent_call = NoFluentCall

InitOthers ==
  /\ serialized = {}
  /\ InitWrappers
  /\ InitSilas
  /\ InitFluent

Init == InitBackend /\ InitSimulator /\ InitSiLA /\ InitOthers

Next ==
  \/ setup
  \/ stop
  \/ Preseed
  \/ \E t \in Callers : pick_up_tips(t)
  \/ \E t \in Callers : drop_tips(t)
  \/ \E t \in Callers : aspirate(t)
  \/ \E t \in Callers : dispense(t)
  \/ \E t \in Callers : pick_up_resource(t)
  \/ \E t \in Callers : move_picked_up_resource(t)
  \/ \E t \in Callers : drop_resource(t)
  \/ \E t \in Callers : Wake(t)
  \/ \E t \in Callers : Cancel(t)
  \/ \E t \in Callers : CallerContinues(t)

Spec == Init /\ [][Next]_vars

(***************************************************************************)
(* Two coroutines call one backend without awaiting each other            *)
(* (asyncio.gather or two tasks): one pipettes, the other handles tips,    *)
(* and the event loop may run either whenever the other is suspended in a  *)
(* sleep.                                                                  *)
(***************************************************************************)
NextConc ==
  \/ setup
  \/ Preseed
  \/ \E t \in Tasks \ Callers : pick_up_tips(t)
  \/ \E t \in Tasks \ Callers : drop_tips(t)
  \/ \E t \in Callers : aspirate(t)
  \/ \E t \in Callers : dispense(t)
  \/ \E t \in Tasks : Wake(t)
  \/ \E t \in Tasks : CallerContinues(t)

SpecConc == Init /\ [][NextConc]_vars

(***************************************************************************)
(* A transfer and its reverse: the first coroutine picks up tips and       *)
(* pipettes once; when it has returned, the second pipettes once.  The     *)
(* wells may hold more, and the volumes are smaller, than in Spec.         *)
(***************************************************************************)
LedgerSeedVolumes == {3, 34}

LedgerVolumes == {1, 2}

PreseedLedger ==
  /\ \A t \in Tasks : task[t].pc = "idle"
  /\ setup_finished
  /\ commands = <<>>
  /\ \E w \in Wells, v \in LedgerSeedVolumes :
       /\ WellKey(w) \notin DOMAIN liquid_states
       /\ liquid_states' = DictSet(liquid_states, WellKey(w), v)
  /\ UNCHANGED <<session, commands, tip_states, picked_up_resource, task,
                 simulator, status, sila_backend, other_objects>>

PipetteOnce(t) ==
  \E kind \in LiquidKinds, w \in Wells, v \in LedgerVolumes, channel \in Channels :
    Enter(t, kind, <<[resource |-> w, volume |-> v, liquid_class |-> "water"]>>,
          <<channel>>)

FirstOfPair(t) ==
  /\ \A u \in Tasks : task[u].pc = "idle"
  /\ PipetteOnce(t)

SecondOfPair(t) ==
  /\ \E u \in Callers : task[u].pc = "returned" /\ task[u].kind \in LiquidKinds
  /\ PipetteOnce(t)

PairContinues(t) ==
  /\ \A u \in Tasks \ {t} : task[u].pc # "sleeping"
  /\ CallerContinues(t)

NextLedger ==
  \/ setup
  \/ PreseedLedger
  \/ \E t \in Callers : pick_up_tips(t)
  \/ \E t \in Callers : FirstOfPair(t)
  \/ \E t \in Tasks \ Callers : SecondOfPair(t)
  \/ \E t \in Tasks : Wake(t)
  \/ \E t \in Tasks : PairContinues(t)

SpecLedger == Init /\ [][NextLedger]_vars

(***************************************************************************)
(* A harness that handles tips and queries the status once.                *)
(***************************************************************************)
NextStatus ==
  \/ setup
  \/ get_status
  \/ ModifyStatus
  \/ \E t \in Callers : pick_up_tips(t)
  \/ \E t \in Callers : drop_tips(t)
  \/ \E t \in Callers : Wake(t)
  \/ \E t \in Callers : CallerContinues(t)

SpecStatus == Init /\ [][NextStatus]_vars

(***************************************************************************)
(* simulate_worklist.py: the worklist simulator on its own.                *)
(***************************************************************************)
NextSimulator ==
  \/ PreseedSimulator
  \/ connect
  \/ disconnect
  \/ load_worklist
  \/ execute_commands
  \/ RunWake
  \/ RunContinues

SpecSimulator == Init /\ [][NextSimulator]_vars

(***************************************************************************)
(* The two scripts of worklist_tests are separate programs: a run drives   *)
(* the simulated backend (test_simulation.py) or the worklist simulator    *)
(* (simulate_worklist.py), never both.                                     *)
(***************************************************************************)
BackendScript == InitSimulator /\ Next

WorklistScript == InitBackend /\ NextSimulator

NextScripts == BackendScript \/ WorklistScript

SpecScripts == Init /\ [][NextScripts]_vars

(***************************************************************************)
(* The two programs with every operation of the simulator backend, the     *)
(* four 96-head operations included.                                        *)
(***************************************************************************)
HeadOperations ==
  \/ \E t \in Callers : pick_up_tips96(t)
  \/ \E t \in Callers : drop_tips96(t)
  \/ \E t \in Callers : aspirate96(t)
  \/ \E t \in Callers : dispense96(t)

\* setup and stop called by another coroutine while an operation sleeps.
SessionChange ==
  /\ \E t \in Callers : task[t].pc = "sleeping"
  /\ (SetupBody \/ StopBody)

BackendSession ==
  \/ setup
  \/ stop
  \/ \E t \in Callers : pick_up_tips(t)
  \/ \E t \in Callers : drop_tips(t)
  \/ \E t \in Callers : aspirate(t)
  \/ \E t \in Callers : dispense(t)
  \/ \E t \in Callers : pick_up_resource(t)
  \/ \E t \in Callers : move_picked_up_resource(t)
  \/ \E t \in Callers : drop_resource(t)
  \/ HeadOperations
  \/ SessionChange
  \/ \E t \in Callers : Wake(t)
  \/ \E t \in Callers : CallerContinues(t)

BackendSessionScript == InitSimulator /\ BackendSession

NextSession == BackendSessionScript \/ WorklistScript

SpecSession == Init /\ [][NextSession]_vars

(***************************************************************************)
(* The SiLA backend on its own: one TecanSiLABackend, constructed with any *)
(* host and credentials, then set up, used and stopped in any order.        *)
(***************************************************************************)
NextSiLA ==
  \/ TecanSiLABackend
  \/ sila_setup
  \/ sila_stop
  \/ sila_operation

SpecSiLA == Init /\ [][NextSiLA]_vars

(***************************************************************************)
(* The SiLA backend serialized at any moment of its life: new, set up,     *)
(* after a setup that failed, and stopped.                                  *)
(***************************************************************************)
NextSerialize ==
  \/ TecanSiLABackend
  \/ sila_setup
  \/ sila_stop
  \/ sila_serialize

SpecSerialize == Init /\ [][NextSerialize]_vars

(***************************************************************************)
(* The two client wrappers, connected, used and disconnected in any order, *)
(* each client call returning or raising.                                   *)
(***************************************************************************)
NextWrappers ==
  \/ \E w \in Wrappers : Connect(w)
  \/ \E w \in Wrappers : Disconnect(w)
  \/ \E w \in Wrappers : Operate(w)

SpecWrappers == Init /\ [][NextWrappers]_vars

(***************************************************************************)
(* The FluentControl backend of tecan_silas_backend.py: constructed with   *)
(* or without a method name, then set up, used and stopped in any order.   *)
(* A coroutine suspended in a poll is resumed before the next call.        *)
(***************************************************************************)
NextSilas ==
  \/ SilasBackend
  \/ silas_setup
  \/ silas_stop
  \/ load_method
  \/ execute_method
  \/ silas_operation
  \/ Poll

SpecSilas == Init /\ [][NextSilas]_vars

\* The event loop resumes a coroutine whose awaited call has completed.
SpecSilasFair == SpecSilas /\ WF_vars(Poll)

(***************************************************************************)
(* The Fluent backend of fluent.py: constructed in simulation mode or not, *)
(* then set up, used and stopped in any order.                              *)
(***************************************************************************)
NextFluent ==
  \/ Fluent
  \/ fluent_setup
  \/ fluent_stop
  \/ fluent_operation
  \/ worklist_control

SpecFluent == Init /\ [][NextFluent]_vars

(***************************************************************************)
(* Vocabulary of the properties, stated on the observable state and not    *)
(* through the operators of the code above.                                *)
(***************************************************************************)
\* tip_present(C) in a tip table ts
TipPresent(ts, ch) == ch \in DOMAIN ts /\ ts[ch] = TRUE

\* volume(W) in a ledger ls: a well never referenced holds 0
VolumeIn(ls, w) == IF <<w, w>> \in DOMAIN ls THEN ls[<<w, w>>] ELSE 0

PreconditionErrors ==
  {"No tip on channel", "Not enough liquid", "Already holding a resource",
   "No resource picked up"}

\* In this step task t has processed one element of an operation of kind k;
\* the element and its outcome are in task'[t].
Processed(t, k) ==
  /\ task[t].pc \in {"idle", "sleeping"}
  /\ task'[t].pc \in {"sleeping", "raised"}
  /\ task'[t].kind = k
  /\ task'[t].i >= 1
  /\ task[t].pc = "sleeping" => task'[t].i = task[t].i + 1

ElementOp(c) == c.ops[c.i]
ElementChannel(c) == c.use_channels[c.i]

RejectedForPrecondition(c) == c.pc = "raised" /\ c.error \in PreconditionErrors

StateAsBefore(c) ==
  /\ tip_states = c.before.tip_states
  /\ liquid_states = c.before.liquid_states
  /\ picked_up_resource = c.before.picked_up_resource

(***************************************************************************)
(* C1: validation precedes dispatch: an element of any operation that is   *)
(* rejected for a precondition (no tip, not enough liquid, resource        *)
(* already held, no resource held) leaves the runtime's command list as it *)
(* was before the element was processed.                                   *)
(***************************************************************************)
C1_ValidationPrecedesDispatch ==
  [][\A t \in Tasks :
       \A k \in TipKinds \cup LiquidKinds \cup ResourceKinds :
         (Processed(t, k) /\ RejectedForPrecondition(task'[t]))
            => commands' = commands]_vars

(***************************************************************************)
(* C2: batch atomicity: when a call of pick_up_tips, drop_tips, aspirate   *)
(* or dispense ends because one of its elements failed validation, nothing *)
(* of the batch has been dispatched and the tip flags, well volumes and    *)
(* held resource are those at the start of the call.                       *)
(***************************************************************************)
C2_BatchAtomicity ==
  \A t \in Tasks :
    (task[t].kind \in TipKinds \cup LiquidKinds
       /\ RejectedForPrecondition(task[t]))
      => (commands = task[t].before.commands /\ StateAsBefore(task[t]))

(***************************************************************************)
(* C3: every entry of the liquid ledger is >= 0 in every reachable state.  *)
(***************************************************************************)
C3_LedgerNonNegative ==
  \A key \in DOMAIN liquid_states : liquid_states[key] >= 0

(***************************************************************************)
(* C5: a pick_up_tips element on a channel that already holds a tip is     *)
(* rejected, is not dispatched, and the channel still holds its tip.       *)
(***************************************************************************)
C5_PickupOnTipRejected ==
  [][\A t \in Tasks :
       (Processed(t, "pick_up_tips")
          /\ TipPresent(tip_states, ElementChannel(task'[t])))
         => /\ task'[t].pc = "raised"
            /\ commands' = commands
            /\ TipPresent(tip_states', ElementChannel(task'[t]))]_vars

(***************************************************************************)
(* C6: a drop_tips element on a channel without a tip is rejected and not  *)
(* dispatched; on a channel with a tip it succeeds and the channel has no  *)
(* tip afterwards.                                                         *)
(***************************************************************************)
C6_DropNeedsTip ==
  [][\A t \in Tasks :
       Processed(t, "drop_tips")
         => IF TipPresent(tip_states, ElementChannel(task'[t]))
            THEN /\ task'[t].pc = "sleeping"
                 /\ ~TipPresent(tip_states', ElementChannel(task'[t]))
            ELSE /\ task'[t].pc = "raised"
                 /\ commands' = commands]_vars

(***************************************************************************)
(* C7: an aspirate or dispense element on a channel C with                 *)
(* tip_present(C) false (never picked up, or dropped since) is rejected    *)
(* with the no-tip error, is not dispatched, and the ledger, the target    *)
(* well's volume included, is unchanged; so an accepted element had a tip. *)
(***************************************************************************)
C7_LiquidOpNeedsTip ==
  [][\A t \in Tasks : \A k \in LiquidKinds :
       Processed(t, k)
         => /\ ~TipPresent(tip_states, ElementChannel(task'[t]))
               => /\ task'[t].pc = "raised"
                  /\ task'[t].error = "No tip on channel"
                  /\ liquid_states' = liquid_states
                  /\ commands' = commands
            /\ task'[t].pc = "sleeping"
               => TipPresent(tip_states, ElementChannel(task'[t]))]_vars

\* An aspirate was rejected on a channel whose tip had been dropped, while a
\* well holds liquid.
C7_Witness ==
  \E t \in Tasks :
    /\ task[t].pc = "raised"
    /\ task[t].error = "No tip on channel"
    /\ task[t].kind = "aspirate"
    /\ ElementChannel(task[t]) \in DOMAIN tip_states
    /\ tip_states[ElementChannel(task[t])] = FALSE
    /\ \E w \in Wells : VolumeIn(liquid_states, w) > 0
    /\ liquid_states = task[t].before.liquid_states

(***************************************************************************)
(* C8: an aspirate element on a channel with a tip from a well W with      *)
(* volume(W) < requested volume (a well never referenced holds 0) is       *)
(* rejected with the not-enough-liquid error and leaves every well's       *)
(* volume, every tip flag and the held resource as they were; for the      *)
(* first element of a call these are the values at the start of the call.  *)
(***************************************************************************)
C8_InsufficientVolumeLeavesLedger ==
  [][\A t \in Tasks :
       (/\ Processed(t, "aspirate")
        /\ TipPresent(tip_states, ElementChannel(task'[t]))
        /\ VolumeIn(liquid_states, ElementOp(task'[t]).resource)
             < ElementOp(task'[t]).volume)
         => /\ task'[t].pc = "raised"
            /\ task'[t].error = "Not enough liquid"
            /\ liquid_states' = liquid_states
            /\ tip_states' = tip_states
            /\ picked_up_resource' = picked_up_resource
            /\ task'[t].i = 1
                 => /\ liquid_states' = task'[t].before.liquid_states
                    /\ tip_states' = task'[t].before.tip_states
                    /\ picked_up_resource' = task'[t].before.picked_up_resource]_vars

\* A single aspirate from a well never referenced before was rejected for
\* its volume while another well holds liquid and a resource is held.
C8_Witness ==
  \E t \in Tasks :
    /\ task[t].pc = "raised"
    /\ task[t].error = "Not enough liquid"
    /\ task[t].kind = "aspirate"
    /\ Len(task[t].ops) = 1
    /\ TipPresent(tip_states, ElementChannel(task[t]))
    /\ WellKey(ElementOp(task[t]).resource) \notin DOMAIN liquid_states
    /\ \E w \in Wells : VolumeIn(liquid_states, w) > 0
    /\ picked_up_resource # None
    /\ StateAsBefore(task[t])

C11_PickupWhileHoldingRejected ==
  [][\A t \in Tasks :
       (Processed(t, "pick_up_resource") /\ picked_up_resource # None)
         => /\ task'[t].pc = "raised"
            /\ task'[t].error = "Already holding a resource"
            /\ commands' = commands
            /\ picked_up_resource' = picked_up_resource]_vars

\* A pickup of another plate was rejected while the gripper holds the first.
C11_Witness ==
  \E t \in Tasks :
    /\ task[t].pc = "raised"
    /\ task[t].kind = "pick_up_resource"
    /\ task[t].error = "Already holding a resource"
    /\ picked_up_resource \in Plates
    /\ task[t].ops[1].resource # picked_up_resource
    /\ picked_up_resource = task[t].before.picked_up_resource
    /\ commands = task[t].before.commands

(***************************************************************************)
(* C12: move_picked_up_resource(R) and drop_resource(R) are accepted only  *)
(* when the gripper holds exactly R: when it holds nothing or another      *)
(* resource the call is rejected, not dispatched, and the held resource is *)
(* unchanged.                                                              *)
(***************************************************************************)
C12_MoveDropNeedThatResource ==
  [][\A t \in Tasks : \A k \in {"move_picked_up_resource", "drop_resource"} :
       (Processed(t, k) /\ picked_up_resource # ElementOp(task'[t]).resource)
         => /\ task'[t].pc = "raised"
            /\ commands' = commands
            /\ picked_up_resource' = picked_up_resource]_vars

(***************************************************************************)
(* C13: cancellation: when an operation is cancelled while a command is in *)
(* flight (suspended between the dispatch of element i and the end of its  *)
(* simulated duration), that command's mutation is not applied: tip flags, *)
(* well volumes and held resource are what they were before that command.  *)
(***************************************************************************)
C13_CancelledCommandNotApplied ==
  \A t \in Tasks :
    task[t].pc = "cancelled"
      => /\ tip_states = task[t].at_element.tip_states
         /\ liquid_states = task[t].at_element.liquid_states
         /\ picked_up_resource = task[t].at_element.picked_up_resource

(***************************************************************************)
(* C15: batch snapshot validation: every aspirate or dispense element of   *)
(* one call is accepted or rejected as the state at the start of the call  *)
(* decides (tip on its channel; for an aspirate, the well's volume at the  *)
(* start of the call at least the requested volume), whatever the earlier  *)
(* elements of the same call have changed.                                 *)
(***************************************************************************)
AcceptedAtStart(c) ==
  /\ TipPresent(c.before.tip_states, ElementChannel(c))
  /\ c.kind = "aspirate"
       => VolumeIn(c.before.liquid_states, ElementOp(c).resource)
            >= ElementOp(c).volume

C15_ValidatedAgainstBatchStart ==
  [][\A t \in Tasks : \A k \in LiquidKinds :
       Processed(t, k)
         => (task'[t].pc = "sleeping" <=> AcceptedAtStart(task'[t]))]_vars

(***************************************************************************)
(* C18: a record entry is appended for every processed command whatever    *)
(* its outcome: processing an element, accepted or rejected by validation, *)
(* makes the runtime's command record grow by exactly one entry.           *)
(***************************************************************************)
C18_RecordGrowsForEveryCommand ==
  [][\A t \in Tasks : \A k \in TipKinds \cup LiquidKinds \cup ResourceKinds :
       Processed(t, k) => Len(commands') = Len(commands) + 1]_vars

(***************************************************************************)
(* C14: no concurrent dispatch: while a command (or batch) of one          *)
(* operation is in flight, between its dispatch and its completion, no     *)
(* element of an operation called by another coroutine is validated,       *)
(* dispatched or applied.                                                  *)
(***************************************************************************)
C14_NoConcurrentDispatch ==
  [][\A a \in Tasks : \A b \in Tasks \ {a} :
       task[a].pc = "sleeping"
         => ~ \E k \in TipKinds \cup LiquidKinds : Processed(b, k)]_vars

(***************************************************************************)
(* Vocabulary of the worklist properties, stated on the lines the file was *)
(* written from and not through the operators of the parser.               *)
(***************************************************************************)
Codes == {"A", "D", "W", "B", "M"}

Semicolons(line) == {i \in 1..Len(line) : line[i] = ";"}

\* The k-th field of a record, k = 1 for the code; empty when absent.
FieldAt(line, k) ==
  LET at == {p \in 1..Len(line) :
               /\ line[p] # ";"
               /\ Cardinality({i \in Semicolons(line) : i < p}) = k - 1}
  IN IF at = {} THEN <<>>
     ELSE SubSeq(line, CHOOSE p \in at : \A q \in at : p <= q,
                       CHOOSE p \in at : \A q \in at : q <= p)

FieldCount(line) == Cardinality(Semicolons(line)) + 1

BlankLine(line) == \A i \in 1..Len(line) : line[i] = " "

IsNumber(f) ==
  LET digits == IF f # <<>> /\ Head(f) = "-" THEN Tail(f) ELSE f
  IN /\ digits # <<>>
     /\ \A i \in 1..Len(digits) :
          digits[i] \in {"0", "1", "2", "3", "4", "5", "6", "7", "8", "9"}

\* A non-blank line whose code is none of A, D, W, B, M.
UnknownCode(line) ==
  ~BlankLine(line) /\ FieldAt(line, 1) \notin {<<c>> : c \in Codes}

\* An A, D or M record that lacks a required field or whose volume (or
\* cycles, for M) is not a number.
Malformed(line) ==
  /\ FieldAt(line, 1) \in {<<"A">>, <<"D">>, <<"M">>}
  /\ \/ FieldCount(line) < 5
     \/ ~IsNumber(FieldAt(line, 5))
     \/ FieldAt(line, 1) = <<"M">> /\ ~IsNumber(FieldAt(line, 4))

Loaded == load.pc # "idle" /\ load.exists

(***************************************************************************)
(* C19: a worklist that has a non-blank line with an unknown command code  *)
(* makes load_worklist fail, and no command is returned, not even those of *)
(* the valid lines around it.                                              *)
(***************************************************************************)
C19_UnknownCodeRejected ==
  (Loaded /\ \E k \in 1..Len(load.lines) : UnknownCode(load.lines[k]))
    => load.pc = "raised" /\ load.commands = <<>>

(***************************************************************************)
(* C20: parsing is all-or-nothing: a worklist with at least one malformed  *)
(* record makes load_worklist fail, and it returns no command sequence,    *)
(* partial or complete.                                                    *)
(***************************************************************************)
C20_ParsingAllOrNothing ==
  (Loaded /\ \E k \in 1..Len(load.lines) : Malformed(load.lines[k]))
    => load.pc = "raised" /\ load.commands = <<>>

\* load_worklist has failed on a file whose first line is a valid record and
\* whose second line is malformed.
C20_Witness ==
  /\ Loaded
  /\ Len(load.lines) = 2
  /\ FieldAt(load.lines[1], 1) \in {<<c>> : c \in Codes}
  /\ ~Malformed(load.lines[1])
  /\ Malformed(load.lines[2])
  /\ load.pc = "raised"
  /\ load.error \in {"IndexError", "ValueError"}
  /\ load.commands = <<>>

(***************************************************************************)
(* Vocabulary of the ordering properties.                                  *)
(***************************************************************************)
CommandName(kind) ==
  CASE kind = "pick_up_tips" -> "PickUpTip"
    [] kind = "drop_tips" -> "DropTip"
    [] kind = "aspirate" -> "Aspirate"
    [] kind = "dispense" -> "Dispense"
    [] kind = "pick_up_resource" -> "PickUpResource"
    [] kind = "move_picked_up_resource" -> "MoveResource"
    [] kind = "drop_resource" -> "DropResource"

\* The recorded command cmd is the one of element k of call c.
Describes(cmd, c, k) ==
  /\ cmd.command = CommandName(c.kind)
  /\ IF c.kind \in ResourceKinds
     THEN cmd.params.resource = c.ops[k].resource
     ELSE /\ cmd.params.channel = c.use_channels[k]
          /\ cmd.params.position = <<"pos", c.ops[k].resource>>
          /\ c.kind \in LiquidKinds => cmd.params.volume = c.ops[k].volume

\* What the runtime has recorded since call c began.
Dispatched(c) == SubSeq(commands, Len(c.before.commands) + 1, Len(commands))

\* How many elements of call c have been accepted so far: all up to element
\* i, but for element i itself when it was rejected.
Accepted(c) ==
  IF c.pc = "raised" THEN (IF c.i >= 1 THEN c.i - 1 ELSE 0) ELSE c.i

DispatchedInInputOrder ==
  \A t \in Tasks :
    task[t].pc # "idle"
      => /\ SubSeq(commands, 1, Len(task[t].before.commands)) = task[t].before.commands
         /\ Len(Dispatched(task[t])) <= Len(task[t].ops)
         /\ \A k \in 1..Len(Dispatched(task[t])) :
              Describes(Dispatched(task[t])[k], task[t], k)

DispatchedAreTheAccepted ==
  \A t \in Tasks :
    task[t].pc # "idle" => Len(Dispatched(task[t])) = Accepted(task[t])

\* The log of execute_commands is the list it was given, up to the command
\* it has reached.
ExecutedInListOrder ==
  run.pc # "idle"
    => executed = SubSeq(run.commands, 1,
                         IF run.pc = "raised" THEN 0
                         ELSE IF run.i > Len(run.commands) THEN Len(run.commands)
                         ELSE run.i)

\* The record only grows, at its end and by one command.
RecordAppendOnly ==
  \/ commands' = commands
  \/ /\ Len(commands') = Len(commands) + 1
     /\ SubSeq(commands', 1, Len(commands)) = commands

(***************************************************************************)
(* C16: ordering: the commands recorded by SimulatedRuntime.commands and   *)
(* the commands executed by TecanSimulator.execute_commands appear in the  *)
(* order they were submitted: the i-th dispatched command of a call is the *)
(* i-th accepted element of its input, and the record is never reordered.  *)
(***************************************************************************)
C16_Ordering ==
  /\ [](DispatchedInInputOrder /\ DispatchedAreTheAccepted /\ ExecutedInListOrder)
  /\ [][RecordAppendOnly]_vars

\* The part of C16 that is about order alone.
OrderAlone ==
  /\ [](DispatchedInInputOrder /\ ExecutedInListOrder)
  /\ [][RecordAppendOnly]_vars

(***************************************************************************)
(* C17: fail-fast: once an element of a call has been rejected for a       *)
(* precondition or has failed at the device, no later element of that call *)
(* is dispatched or applied to the tip, ledger or gripper state; and an    *)
(* execute_commands that has failed has simulated no command and simulates *)
(* none afterwards.                                                        *)
(***************************************************************************)
C17_FailFast ==
  [][/\ \A t \in Tasks :
          (task[t].pc # "idle" /\ task[t].error # "none")
            => /\ commands' = commands
               /\ tip_states' = tip_states
               /\ liquid_states' = liquid_states
               /\ picked_up_resource' = picked_up_resource
               /\ task'[t].pc \in {"idle", task[t].pc}
     /\ (run.pc # "idle" /\ run.error # "none")
          => executed = <<>> /\ executed' = executed]_vars

\* The first element of a two-element aspirate was rejected for its missing
\* tip; the second, on a channel that holds a tip, was never reached.
C17_Witness ==
  \E t \in Tasks :
    /\ task[t].pc = "raised"
    /\ task[t].kind = "aspirate"
    /\ task[t].error = "No tip on channel"
    /\ task[t].i = 1
    /\ Len(task[t].ops) = 2
    /\ TipPresent(tip_states, task[t].use_channels[2])
    /\ commands = task[t].before.commands
    /\ StateAsBefore(task[t])

(***************************************************************************)
(* Vocabulary of the parsing properties.                                   *)
(***************************************************************************)
DigitValue(ch) ==
  CHOOSE n \in 0..9 : <<"0", "1", "2", "3", "4", "5", "6", "7", "8", "9">>[n + 1] = ch

\* The number a field of digits, with or without a minus sign, writes.
RECURSIVE NumberOf(_)
NumberOf(f) ==
  IF f = <<>> THEN 0
  ELSE IF Head(f) = "-" THEN 0 - NumberOf(Tail(f))
  ELSE 10 * NumberOf(SubSeq(f, 1, Len(f) - 1)) + DigitValue(f[Len(f)])

\* A record with a known code and all the fields its kind requires.
ValidRecord(line) ==
  FieldAt(line, 1) \in {<<c>> : c \in Codes} /\ ~Malformed(line)

\* The command a valid record stands for: the kind from the code, plate and
\* well from fields 1 and 2, cycles and volume from fields 3 and 4 (counted
\* from 0 as the code does).
CommandOf(line) ==
  CASE FieldAt(line, 1) = <<"A">> ->
         [type |-> "aspirate", plate |-> FieldAt(line, 2), well |-> FieldAt(line, 3),
          volume |-> NumberOf(FieldAt(line, 5))]
    [] FieldAt(line, 1) = <<"D">> ->
         [type |-> "dispense", plate |-> FieldAt(line, 2), well |-> FieldAt(line, 3),
          volume |-> NumberOf(FieldAt(line, 5))]
    [] FieldAt(line, 1) = <<"W">> -> [type |-> "wash"]
    [] FieldAt(line, 1) = <<"B">> -> [type |-> "break"]
    [] FieldAt(line, 1) = <<"M">> ->
         [type |-> "mix", plate |-> FieldAt(line, 2), well |-> FieldAt(line, 3),
          cycles |-> NumberOf(FieldAt(line, 4)),
          volume |-> NumberOf(FieldAt(line, 5))]

NonBlank(line) == ~BlankLine(line)

NonBlankLines(lines) == SelectSeq(lines, NonBlank)

ValidFile(lines) ==
  \A k \in 1..Len(lines) : BlankLine(lines[k]) \/ ValidRecord(lines[k])

(***************************************************************************)
(* C21: for every valid worklist, load_worklist returns exactly one        *)
(* command per non-blank line, in line order, with the kind selected by    *)
(* the code and plate, well, cycles and volume taken from fields 1 to 4;   *)
(* blank and whitespace-only lines contribute no command.                  *)
(***************************************************************************)
C21_OneCommandPerLine ==
  (Loaded /\ ValidFile(load.lines))
    => /\ load.pc = "returned"
       /\ Len(load.commands) = Len(NonBlankLines(load.lines))
       /\ \A k \in 1..Len(load.commands) :
            load.commands[k] = CommandOf(NonBlankLines(load.lines)[k])

\* A file of an aspirate record and a mix record was parsed into the two
\* commands, in that order.
C21_Witness ==
  /\ Loaded
  /\ Len(load.lines) = 2
  /\ FieldAt(load.lines[1], 1) = <<"A">>
  /\ FieldAt(load.lines[2], 1) = <<"M">>
  /\ ValidFile(load.lines)
  /\ load.pc = "returned"
  /\ Len(load.commands) = 2
  /\ load.commands[1].type = "aspirate"
  /\ load.commands[2].type = "mix"
  /\ load.commands[2].cycles = 2

\* line is the record base with one or more further fields appended.
Extends(line, base) ==
  /\ Len(line) > Len(base)
  /\ SubSeq(line, 1, Len(base)) = base
  /\ line[Len(base) + 1] = ";"

(***************************************************************************)
(* C22: fields beyond the minimum required are ignored: a valid record     *)
(* with any number of extra fields appended is parsed into the same        *)
(* command as the record without them.                                     *)
(***************************************************************************)
C22_ExtraFieldsIgnored ==
  (Loaded /\ ValidFile(load.lines))
    => /\ load.pc = "returned"
       /\ Len(load.commands) = Len(NonBlankLines(load.lines))
       /\ \A j \in 1..Len(load.commands) : \A k \in 1..Len(load.commands) :
            Extends(NonBlankLines(load.lines)[k], NonBlankLines(load.lines)[j])
              => load.commands[k] = load.commands[j]

\* A mix record and the same record with two more fields were parsed into
\* two equal commands.
C22_Witness ==
  /\ Loaded
  /\ Len(load.lines) = 2
  /\ FieldCount(load.lines[1]) = 5
  /\ FieldCount(load.lines[2]) = 7
  /\ Extends(load.lines[2], load.lines[1])
  /\ load.pc = "returned"
  /\ Len(load.commands) = 2
  /\ load.commands[1].type = "mix"
  /\ load.commands[2] = load.commands[1]

(***************************************************************************)
(* Vocabulary of the worklist execution properties.                        *)
(***************************************************************************)
\* The volume simulator.liquid_states records for a well, 0 when absent.
SimulatorVolume(ls, plate, well) ==
  IF <<plate, well>> \in DOMAIN ls THEN ls[<<plate, well>>] ELSE 0

\* In this step execute_commands has simulated the command at position
\* run'.i of its list.
Simulated ==
  /\ run'.pc = "sleeping"
  /\ run.pc = "sleeping" => run'.i > run.i
  /\ Len(executed') = Len(executed) + 1 \/ run.pc = "idle"

SimulatedCommand == run'.commands[run'.i]

(***************************************************************************)
(* C23: executing a parsed worklist updates the ledger: each executed      *)
(* aspirate of v from a well lowers the volume the simulator records for   *)
(* that well by v, and each executed dispense of v raises it by v (with    *)
(* Source.A1 seeded to 10, an aspirate of 5 leaves 5).                     *)
(***************************************************************************)
C23_ExecutionUpdatesLedger ==
  [][Simulated /\ SimulatedCommand.type \in {"aspirate", "dispense"}
       => SimulatorVolume(simulator_liquid_states',
                          SimulatedCommand.plate, SimulatedCommand.well)
            = SimulatorVolume(simulator_liquid_states,
                              SimulatedCommand.plate, SimulatedCommand.well)
              + (IF SimulatedCommand.type = "aspirate"
                 THEN 0 - SimulatedCommand.volume
                 ELSE SimulatedCommand.volume)]_vars

\* In this step the asyncio.sleep of the command at position run.i is over.
SleepOver == run.pc = "sleeping" /\ run' # run

SleepingCommand == run.commands[run.i]

(***************************************************************************)
(* C25: executing a Mix, a Wash or a Break command changes no well volume, *)
(* no tip flag and no held resource; the only effect of a Mix is a         *)
(* simulated duration proportional to its cycles field (0.3 s a cycle).    *)
(***************************************************************************)
C25_MixWashBreakFrame ==
  [][/\ (Simulated /\ SimulatedCommand.type \in {"mix", "wash", "break"})
          => /\ simulator_liquid_states' = simulator_liquid_states
             /\ simulator_tip_states' = simulator_tip_states
             /\ liquid_states' = liquid_states
             /\ tip_states' = tip_states
             /\ picked_up_resource' = picked_up_resource
     /\ (SleepOver /\ SleepingCommand.type = "mix")
          => run'.elapsed = run.elapsed + 3 * SleepingCommand.cycles]_vars

\* A mix of three cycles and a wash have been executed over a seeded well:
\* the well still holds its seed and the mix has taken nine tenths.
C25_Witness ==
  /\ run.pc = "returned"
  /\ Len(executed) = 2
  /\ executed[1].type = "mix"
  /\ executed[1].cycles = 3
  /\ executed[2].type = "wash"
  /\ run.elapsed = 19
  /\ SimulatorVolume(simulator_liquid_states, executed[1].plate, executed[1].well) = 10

(***************************************************************************)
(* Vocabulary of the timing property: nominal durations in tenths.         *)
(***************************************************************************)
NominalDuration(cmd) ==
  CASE cmd.type = "aspirate" -> 5
    [] cmd.type = "dispense" -> 5
    [] cmd.type = "wash" -> 10
    [] cmd.type = "break" -> 2
    [] cmd.type = "mix" -> 3 * cmd.cycles

NominalOfKind(kind) ==
  IF kind \in {"pick_up_tips", "drop_tips", "aspirate", "dispense"} THEN 5 ELSE 10

RECURSIVE SumNominal(_, _)
SumNominal(cmds, n) ==
  IF n = 0 THEN 0 ELSE SumNominal(cmds, n - 1) + NominalDuration(cmds[n])

\* The commands of the list execute_commands has carried out to the end.
CompletedCommands ==
  CASE run.pc = "sleeping" -> run.i - 1
    [] run.pc = "returned" -> Len(run.commands)
    [] OTHER -> 0

\* The elements call c has carried out to the end of their sleep.
CompletedElements(c) ==
  CASE c.pc = "returned" -> c.i
    [] c.i >= 1 -> c.i - 1
    [] OTHER -> 0

ClockIsSumOfDurations ==
  /\ run.pc # "idle" => run.elapsed = SumNominal(run.commands, CompletedCommands)
  /\ \A t \in Tasks :
       task[t].pc # "idle"
         => task[t].elapsed = NominalOfKind(task[t].kind) * CompletedElements(task[t])

ClockNeverDecreases ==
  /\ run'.pc # "idle" => run'.elapsed >= run.elapsed
  /\ \A t \in Tasks : task'[t].pc # "idle" => task'[t].elapsed >= task[t].elapsed

(***************************************************************************)
(* C26: simulated timing, in tenths of a second: executing a command       *)
(* sequence advances the clock by exactly the sum of the nominal durations *)
(* of the executed commands (tip operation 5, aspirate and dispense 5,     *)
(* resource operation 10, wash 10, break 2, mix 3 a cycle); the clock      *)
(* never decreases, and it is a function of the sequence alone.            *)
(***************************************************************************)
C26_SimulatedTiming ==
  /\ []ClockIsSumOfDurations
  /\ [][ClockNeverDecreases]_vars

\* An aspirate and a mix of two cycles have been executed in 5 + 6 tenths.
C26_Witness ==
  /\ run.pc = "returned"
  /\ Len(run.commands) = 2
  /\ run.commands[1].type = "aspirate"
  /\ run.commands[2].type = "mix"
  /\ run.commands[2].cycles = 2
  /\ executed = run.commands
  /\ run.elapsed = 11

(***************************************************************************)
(* Vocabulary of the conservation property.                                *)
(***************************************************************************)
\* Call a and then call b, each of one element, were an aspirate and a
\* dispense (in either order) of one volume on one well, b began in the
\* state a left, both have returned, and the well held at least the volume
\* before the pair.
PairDone(a, b) ==
  /\ task[a].pc = "returned" /\ task[b].pc = "returned"
  /\ {task[a].kind, task[b].kind} = {"aspirate", "dispense"}
  /\ Len(task[a].ops) = 1 /\ Len(task[b].ops) = 1
  /\ task[a].ops[1].resource = task[b].ops[1].resource
  /\ task[a].ops[1].volume = task[b].ops[1].volume
  /\ Len(task[b].before.commands) = Len(task[a].before.commands) + 1
  /\ Len(commands) = Len(task[b].before.commands) + 1
  /\ task[a].ops[1].volume
       <= VolumeIn(task[a].before.liquid_states, task[a].ops[1].resource)

Conserved(a) ==
  VolumeIn(liquid_states, task[a].ops[1].resource)
    = VolumeIn(task[a].before.liquid_states, task[a].ops[1].resource)

(***************************************************************************)
(* C24: conservation: for any well W and any volume v <= volume(W), with a *)
(* tip held throughout, an aspirate of v from W followed by a dispense of  *)
(* v into W leaves volume(W) as it was before the pair, and so does a      *)
(* dispense of v followed by an aspirate of v.                             *)
(***************************************************************************)
C24_Conservation ==
  \A a \in Tasks : \A b \in Tasks \ {a} : PairDone(a, b) => Conserved(a)

\* The same for the pairs whose sums and differences need no rounding.
ConservationWhenExact ==
  \A a \in Tasks : \A b \in Tasks \ {a} :
    (/\ PairDone(a, b)
     /\ VolumeIn(task[a].before.liquid_states, task[a].ops[1].resource)
          + task[a].ops[1].volume < Pow2(MantissaBits))
      => Conserved(a)

PairSeen == \E a \in Tasks : \E b \in Tasks \ {a} : PairDone(a, b) /\ Conserved(a)

(***************************************************************************)
(* Vocabulary of the status property.                                      *)
(***************************************************************************)
\* What the caller reads in the value get_status returned: an entry that
\* refers to a dict of the backend shows that dict as it is now.
StatusTipStates == IF status.tip_states = "self" THEN tip_states ELSE status.at_call.tip_states

StatusLiquidStates ==
  IF status.liquid_states = "self" THEN liquid_states ELSE status.at_call.liquid_states

\* In this step the caller has written into the returned value.
StatusWritten == status'.writes = status.writes + 1

(***************************************************************************)
(* C27: the status query returns an immutable snapshot: the tip states,    *)
(* well volumes and held resource in a value returned by get_status do not *)
(* change when operations are executed afterwards, and modifying the       *)
(* returned value does not change the state of the engine.                 *)
(***************************************************************************)
C27_StatusIsSnapshot ==
  /\ [](status.taken /\ status.writes = 0
          => /\ StatusTipStates = status.at_call.tip_states
             /\ StatusLiquidStates = status.at_call.liquid_states
             /\ status.picked_up_resource = status.at_call.picked_up_resource)
  /\ [][StatusWritten
          => /\ tip_states' = tip_states
             /\ liquid_states' = liquid_states
             /\ picked_up_resource' = picked_up_resource]_vars

(***************************************************************************)
(* The SiLA backend: what a call did on the Fluent class and the connector. *)
(***************************************************************************)
CallsTo(method) ==
  {k \in 1..Len(connector_calls) : connector_calls[k].method = method}

ArgumentsOf(method) == {connector_calls[k].args : k \in CallsTo(method)}

SetupOver == sila_call.op = "setup"

DirectArguments ==
  {<<"host", sila_config.host>>, <<"port", sila_config.port>>,
   <<"insecure", sila_config.insecure>>}

DiscoveryArguments == {<<"discovery_time", sila_config.discovery_time>>}

\* C28: a setup obtains its connector in exactly one way: with host None it
\* calls Fluent.discover(discovery_time) once and constructs no direct
\* connection; with a host it constructs Fluent(host, port, insecure) exactly
\* once and does not call discover.
C28_OneWayToConnect ==
  SetupOver =>
    IF sila_config.host = None
    THEN /\ Cardinality(CallsTo("Fluent.discover")) = 1
         /\ ArgumentsOf("Fluent.discover") = {DiscoveryArguments}
         /\ CallsTo("Fluent") = {}
    ELSE /\ Cardinality(CallsTo("Fluent")) = 1
         /\ ArgumentsOf("Fluent") = {DirectArguments}
         /\ CallsTo("Fluent.discover") = {}

C28_Witness ==
  /\ SetupOver
  /\ sila_config.host = None
  /\ sila_call.error = None
  /\ fluent = "discovered"

BothCredentials ==
  /\ sila_config.username \notin {None, ""}
  /\ sila_config.password \notin {None, ""}

ConnectorObtained == SetupOver /\ sila_call.error /= FailedToConnect

\* C29: a setup that has its connector calls start_fluent exactly once: with
\* username and password as keyword arguments when both are provided and
\* non-empty, with no arguments when either is missing.  No setup calls
\* start_fluent twice or passes only one of the two credentials.
C29_StartFluentOnce ==
  /\ ConnectorObtained =>
       /\ Cardinality(CallsTo("start_fluent")) = 1
       /\ ArgumentsOf("start_fluent") =
            IF BothCredentials
            THEN {{<<"username", sila_config.username>>,
                   <<"password", sila_config.password>>}}
            ELSE {{}}
  /\ SetupOver =>
       /\ Cardinality(CallsTo("start_fluent")) <= 1
       /\ \A args \in ArgumentsOf("start_fluent") : Cardinality(args) \in {0, 2}

C29_Witness ==
  /\ ConnectorObtained
  /\ sila_config.username = "test_user"
  /\ sila_config.password = ""
  /\ ArgumentsOf("start_fluent") = {{}}

NotSetUpErrors == {"Backend not set up. Did you call setup()?"}

\* C30: a stop after a successful setup calls stop_fluent exactly once and
\* leaves fluent None, also when stop_fluent raises; a further stop calls
\* stop_fluent zero times; an operation issued before setup or after stop
\* raises "Backend not set up" without any connector call.
C30_StopAndGuard ==
  /\ (sila_call.op = "stop" /\ sila_call.history = "set_up") =>
       /\ Cardinality(CallsTo("stop_fluent")) = 1
       /\ sila_call.error = None
       /\ fluent = None
  /\ (sila_call.op = "stop" /\ sila_call.history = "stopped") =>
       /\ CallsTo("stop_fluent") = {}
       /\ fluent = None
  /\ (sila_call.op \in SiLAOperations
        /\ sila_call.history \in {"new", "stopped"}) =>
       /\ sila_call.error \in NotSetUpErrors
       /\ connector_calls = <<>>

C30_Witness ==
  /\ sila_call.op = "stop"
  /\ sila_call.history = "set_up"
  /\ sila_call.swallowed
  /\ fluent = None

RECURSIVE TipsIn(_)
\* every tip of a list of Pickup / Drop ops, in list order
TipsIn(ops) == IF ops = <<>> THEN <<>> ELSE Head(ops).tips \o TipsIn(Tail(ops))

OperationReturned ==
  /\ sila_call.op \in SiLAOperations
  /\ sila_call.history = "set_up"
  /\ sila_call.error = None

MethodFor(op) ==
  CASE op = "pick_up_tips" -> "pick_up_tip"
    [] op = "drop_tips" -> "drop_tip"
    [] op = "pick_up_resource" -> "pick_up_labware"
    [] op = "move_picked_up_resource" -> "move_labware"
    [] op = "drop_resource" -> "place_labware"
    [] OTHER -> op

Carries(call, name, value) == <<name, value>> \in call.args

OneCallPerElement ==
  LET ops == sila_call.ops
      targets == IF sila_call.op \in {"pick_up_tips", "drop_tips"}
                 THEN TipsIn(ops)
                 ELSE [k \in 1..Len(ops) |-> ops[k].resource]
  IN /\ Len(connector_calls) = Len(targets)
     /\ \A k \in 1..Len(targets) :
          /\ connector_calls[k].method = MethodFor(sila_call.op)
          /\ Carries(connector_calls[k], "position", targets[k])
          /\ sila_call.op \in {"aspirate", "dispense"} =>
               /\ Carries(connector_calls[k], "volume", ops[k].volume)
               /\ Carries(connector_calls[k], "flow_rate", ops[k].flow_rate)
               /\ Carries(connector_calls[k], "liquid_height",
                          ops[k].liquid_height)
               /\ Carries(connector_calls[k], "blow_out", ops[k].blow_out)

\* C31: on a set-up backend an operation that returns has issued exactly one
\* connector call per element of its ops (per tip for pick_up_tips and
\* drop_tips), in list order and of the matching kind, each aspirate and
\* dispense call carrying the op's volume, flow_rate, liquid_height and
\* blow_out unchanged.
C31_OneCallPerElement == OperationReturned => OneCallPerElement

C31_Witness ==
  /\ OperationReturned
  /\ sila_call.op = "aspirate"
  /\ Len(sila_call.ops) = 2
  /\ sila_call.ops[1] /= sila_call.ops[2]
  /\ Len(connector_calls) = 2

(***************************************************************************)
(* The session of the simulator backend.                                   *)
(***************************************************************************)
BackendOperations ==
  {"pick_up_tips", "drop_tips", "aspirate", "dispense",
   "pick_up_tips96", "drop_tips96", "aspirate96", "dispense96",
   "pick_up_resource", "move_picked_up_resource", "drop_resource"}

\* setup() has completed and stop() has not been called since: the simulated
\* FluentControl is running.
SessionOpen == started

\* In this step task t calls an operation.
CallIssued(t) ==
  /\ task[t].pc = "idle"
  /\ task'[t].pc /= "idle"
  /\ task'[t].kind \in BackendOperations

RejectedUntouched(t) ==
  /\ task'[t].pc = "raised"
  /\ task'[t].error = "Simulator not set up"
  /\ tip_states' = tip_states
  /\ liquid_states' = liquid_states
  /\ picked_up_resource' = picked_up_resource
  /\ commands' = commands

ExecutionIssued == run.pc = "idle" /\ run'.pc /= "idle"

\* C32: an operation of the simulator backend called while the session is
\* not open (before setup has completed, or after stop) raises "Simulator
\* not set up" and leaves tip flags, well volumes, the held resource and the
\* runtime's command list unchanged; execute_commands on a simulator that is
\* not connected raises without executing any command.
C32_SessionGuard ==
  [][/\ \A t \in Tasks :
          (CallIssued(t) /\ ~SessionOpen) => RejectedUntouched(t)
     /\ (ExecutionIssued /\ ~connected) =>
          /\ run'.pc = "raised"
          /\ executed' = <<>>
          /\ simulator_tip_states' = simulator_tip_states
          /\ simulator_liquid_states' = simulator_liquid_states]_vars

C32_Witness ==
  /\ task["main"].pc = "raised"
  /\ task["main"].error = "Simulator not set up"
  /\ task["main"].kind \in {"pick_up_tips96", "aspirate96"}
  /\ ~SessionOpen
  /\ tip_states /= EmptyDict
  /\ commands /= <<>>

(***************************************************************************)
(* C33: whenever setup_finished is true the simulated FluentControl is      *)
(* started and the simulated runtime is initialized, so an operation that   *)
(* passes the setup guard never fails with "Runtime not initialized".       *)
(***************************************************************************)
C33_SetupImpliesReady ==
  /\ [](setup_finished => (started /\ initialized))
  /\ [][\A t \in Tasks :
          (CallIssued(t) /\ setup_finished)
            => task'[t].error /= "Runtime not initialized"]_vars
  /\ [](\A t \in Tasks : task[t].error /= "Runtime not initialized")

C33_Witness ==
  /\ setup_finished
  /\ started
  /\ initialized
  /\ task["main"].pc = "returned"
  /\ task["main"].kind = "dispense96"
  /\ Len(commands) >= 2

\* In this step setup() or stop() has run: a session flag has changed.
SessionStep ==
  \/ started' /= started
  \/ setup_finished' /= setup_finished
  \/ initialized' /= initialized

\* C34: tip flags, well volumes, the held resource and the runtime's recorded
\* commands live as long as the backend: stop() and setup() leave all of
\* them as they are, so what was recorded before stop() is still recorded
\* after the next setup().
C34_StatePersists ==
  [][SessionStep =>
       /\ tip_states' = tip_states
       /\ liquid_states' = liquid_states
       /\ picked_up_resource' = picked_up_resource
       /\ commands' = commands]_vars

C34_Witness ==
  /\ ~started
  /\ ~setup_finished
  /\ initialized
  /\ \E ch \in Channels : TipPresent(tip_states, ch)
  /\ picked_up_resource /= None
  /\ commands /= <<>>

(***************************************************************************)
(* The connection guard of the two client wrappers.                        *)
(***************************************************************************)
OperationOver(w) ==
  connection_call[w].op \notin {"none", "connect", "setup", "disconnect", "stop"}

NotConnectedErrors ==
  {"Not connected to Tecan Fluent Control",
   "Backend not set up. Did you call setup()?"}

\* C35: an operation is forwarded to the client only if the most recent
\* connect() / setup() returned and no disconnect() / stop() has returned
\* since; before any connect, after a connect that raised and after a
\* disconnect, the operation raises the "not connected" / "not set up" error
\* and forwards nothing.
C35_ConnectionGuard ==
  \A w \in Wrappers :
    OperationOver(w) =>
      /\ connection_call[w].forwarded /= <<>>
           => connection_call[w].history \in {"connected", "disconnect_failed"}
      /\ connection_call[w].history \in {"new", "connect_failed", "disconnected"}
           => /\ connection_call[w].error \in NotConnectedErrors
              /\ connection_call[w].forwarded = <<>>

\* The guard as the code has it: an operation is rejected exactly when
\* self.client is None at its entry, which is the case before the first
\* client was constructed and after a disconnect that returned.
ConnectionGuardAsCoded ==
  \A w \in Wrappers :
    (OperationOver(w) /\ connection_call[w].history \in {"new", "disconnected"})
      => /\ connection_call[w].error \in NotConnectedErrors
         /\ connection_call[w].forwarded = <<>>

(***************************************************************************)
(* execute_method of the FluentControl backend.  A call runs it when it is *)
(* execute_method itself or an operation that got as far as StartMethod.   *)
(***************************************************************************)
IndexesOf(name) == {k \in 1..Len(silas_call.calls) : silas_call.calls[k] = name}

Terminal(state) == state \in {"Completed", "Error", "Aborted"}

ObservedStates == silas_call.states

TerminalObserved == \E k \in 1..Len(ObservedStates) : Terminal(ObservedStates[k])

FirstTerminal ==
  ObservedStates[CHOOSE k \in 1..Len(ObservedStates) :
                   /\ Terminal(ObservedStates[k])
                   /\ \A j \in 1..(k - 1) : ~Terminal(ObservedStates[j])]

RunsMethod ==
  silas_call.op = "execute_method" \/ IndexesOf("StartMethod") /= {}

NoMethod ==
  /\ silas_call.op = "execute_method"
  /\ silas_call.given = None
  /\ silas_call.loaded = None

\* C36: execute_method with no method id given and none loaded raises
\* without calling StartMethod; otherwise StartMethod is called exactly once
\* and before the first GetMethodStatus; the call returns only after a
\* status "Completed", raises RuntimeError when the first terminal state it
\* observes is "Error" or "Aborted", and does not return while every state
\* it has observed is non-terminal.
C36_ExecuteMethod ==
  /\ NoMethod => /\ silas_call.pc = "raised"
                 /\ IndexesOf("StartMethod") = {}
  /\ RunsMethod =>
       /\ Cardinality(IndexesOf("StartMethod")) <= 1
       /\ \A g \in IndexesOf("GetMethodStatus") :
            \E st \in IndexesOf("StartMethod") : st < g
       /\ silas_call.pc \in {"polling", "returned"}
            => Cardinality(IndexesOf("StartMethod")) = 1
       /\ silas_call.pc = "returned"
            => /\ ObservedStates /= <<>>
               /\ ObservedStates[Len(ObservedStates)] = "Completed"
       /\ (TerminalObserved /\ FirstTerminal \in {"Error", "Aborted"})
            => /\ silas_call.pc = "raised"
               /\ silas_call.error = "Method execution failed"
       /\ ~TerminalObserved => silas_call.pc /= "returned"

C36_Witness ==
  /\ silas_call.op = "execute_method"
  /\ silas_call.given = None
  /\ silas_call.loaded = "m1"
  /\ silas_call.pc = "returned"
  /\ silas_call.calls = <<"StartMethod", "GetMethodStatus">>
  /\ ObservedStates = <<"Completed">>

\* In this step GetMethodStatus has returned a state that is not terminal.
NonTerminalPolled ==
  /\ silas_call.pc = "polling"
  /\ Len(silas_call'.states) = Len(silas_call.states) + 1
  /\ ~Terminal(silas_call'.states[Len(silas_call'.states)])

\* C37: execute_method ends (returns or raises) if the device eventually
\* reports "Completed", "Error" or "Aborted"; after a status that is none
\* of the three it goes on polling, without a timeout or a bound on the
\* number of polls.
C37_PollingTermination ==
  /\ [](silas_call.pc = "polling"
          => (<>TerminalObserved => <>(silas_call.pc /= "polling")))
  /\ [][NonTerminalPolled => silas_call'.pc = "polling"]_vars

\* What the code does: every poll ends the call, whatever the state.
EveryPollEndsTheCall ==
  [][silas_call.pc = "polling" => silas_call'.pc \in {"returned", "raised"}]_vars

\* C38: stop on a set-up backend attempts StopMethod only if a method id is
\* loaded, ignores a failure of StopMethod, closes the client and, when it
\* returns, has left client and _current_method_id None; stop on a backend
\* that is not set up does nothing, and every operation after stop raises
\* "Backend not set up".
C38_StopCleansUp ==
  /\ (silas_call.op = "stop" /\ silas_call.history = "set_up") =>
       /\ IndexesOf("StopMethod") /= {} => silas_call.loaded /= None
       /\ Cardinality(IndexesOf("close")) = 1
       /\ silas_call.pc = "returned" =>
            /\ silas_client = None
            /\ current_method_id = None
  /\ (silas_call.op = "stop" /\ silas_call.history \in {"new", "stopped"}) =>
       /\ silas_call.pc = "returned"
       /\ silas_call.calls = <<>>
       /\ silas_client = None
       /\ current_method_id = silas_call.loaded
  /\ (silas_call.op \in SilasOperations /\ silas_call.history = "stopped") =>
       /\ silas_call.pc = "raised"
       /\ silas_call.error \in NotSetUpErrors
       /\ silas_call.calls = <<>>

C38_Witness ==
  /\ silas_call.op = "stop"
  /\ silas_call.history = "set_up"
  /\ silas_call.loaded = "m1"
  /\ silas_call.swallowed
  /\ silas_call.calls = <<"StopMethod", "close">>
  /\ silas_call.pc = "returned"
  /\ silas_client = None

\* ---------------------------------------------------------------------------
\* Serialization of the SiLA backend (sila.py).
\* ---------------------------------------------------------------------------

\* serialize() has been called on the backend.
Serialized == serialized /= {}

\* The value the dictionary holds under a key.
Field(dict, key) == (CHOOSE p \in dict : p[1] = key)[2]

\* The keys whose values are strings or None; an int or a bool is never
\* equal to a str.
StringKeys == {"type", "host", "username", "password"}

\* Some value of the dictionary is the given string.
Holds(dict, string) == \E p \in dict : p[1] \in StringKeys /\ p[2] = string

\* A second backend, the same but for its password.
WithPassword(config, password) == [config EXCEPT !.password = password]

\* The non-empty passwords the second backend may have.
NonEmptyPasswords == {"test_pass", "other_pass"}

\* C39: what serialize() returned never holds the password of the backend;
\* a backend that differs only in its non-empty password serializes to the
\* same dictionary; and the password field is "***" when the backend has a
\* non-empty password and None otherwise.
C39_PasswordNotDisclosed ==
  Serialized =>
    /\ serialized = Serialize(sila_config)
    /\ Truthy(sila_config.password) =>
         /\ ~Holds(serialized, sila_config.password)
         /\ \A other \in NonEmptyPasswords :
              Serialize(WithPassword(sila_config, other)) = serialized
         /\ Field(serialized, "password") = "***"
    /\ ~Truthy(sila_config.password) =>
         Field(serialized, "password") = None

C39_Witness ==
  /\ Serialized
  /\ sila_config.password = "test_pass"
  /\ sila_config.username = "test_user"
  /\ Phase = "set_up"

\* ---------------------------------------------------------------------------
\* Simulation mode of the Fluent backend (fluent.py).
\* ---------------------------------------------------------------------------

\* The last call was one of the four operations or of the four worklist
\* controls.
OperationDone == fluent_call.op \in FluentOperations
ControlDone == fluent_call.op \in WorklistControls

\* The calls of a method among the connector calls of the last call.
CallsOf(method) ==
  {k \in 1..Len(fluent_call.calls) : fluent_call.calls[k].method = method}

\* The last call completed successfully: it did not raise, and a worklist
\* control returned True.
CompletedSuccessfully ==
  /\ fluent_call.result /= "raised"
  /\ ControlDone => fluent_call.result = "True"

\* C40: in simulation mode the four operations and the four worklist
\* controls complete successfully without a call on the connector, whether
\* or not setup() was called; out of simulation mode each of the four
\* operations makes exactly one prepare_method call on the connector.
C40_SimulationMode ==
  /\ fluent_mode.simulation_mode /\ (OperationDone \/ ControlDone) =>
       CompletedSuccessfully /\ fluent_call.calls = <<>>
  /\ ~fluent_mode.simulation_mode /\ OperationDone =>
       Cardinality(CallsOf("prepare_method")) = 1

\* What the code does: in simulation mode as stated; out of simulation mode
\* one prepare_method call when self.fluent holds a connector, and no call
\* at all, the operation still returning, when it holds none.
SimulationModeAsCoded ==
  /\ fluent_mode.simulation_mode /\ (OperationDone \/ ControlDone) =>
       CompletedSuccessfully /\ fluent_call.calls = <<>>
  /\ ~fluent_mode.simulation_mode /\ OperationDone =>
       /\ fluent_call.result = "None"
       /\ tecan_fluent /= None =>
            /\ Cardinality(CallsOf("prepare_method")) = 1
            /\ fluent_call.calls[1].method = "prepare_method"
            /\ <<"method_name", fluent_call.op>> \in fluent_call.calls[1].args
       /\ tecan_fluent = None => fluent_call.calls = <<>>

====
